---- MODULE Spec2Model ----
(***************************************************************************)
(* SpikePrimeGit: a browser extension that captures project archives saved *)
(* by the SPIKE web application and pushes them to GitHub.                 *)
(*                                                                         *)
(* Part 1 models the page-world capture interceptor                        *)
(* (content/spike-interceptor.js).  Part 2 models the service worker:      *)
(* the token manager (background/github-auth.js in its OAuth-App and its   *)
(* GitHub-App revision), the message handlers and the GitHub API module.   *)
(*                                                                         *)
(* Text is modelled as a sequence of tokens: the JavaScript string is the  *)
(* concatenation of the tokens, "" is << >>.  A byte buffer is a sequence  *)
(* of byte values.  A value that may be null or undefined is a sequence of *)
(* length at most one: Null is << >> and Some(x) is <<x>>.                 *)
(***************************************************************************)
EXTENDS Integers, Sequences, FiniteSets, TLC

Null == << >>
Some(x) == <<x>>
Val(o) == o[1]

(***************************************************************************)
(* Bounds of the model.                                                    *)
(***************************************************************************)
\* longest byte buffer handed to captureProject
MaxLen == 3

(***************************************************************************)
(* Sample inputs.                                                          *)
(***************************************************************************)
\* 0x50 = 80 ('P') and 0x4B = 75 ('K'); <<75, 80>> and <<80, 80>> are the
\* unrelated payloads
Bytes == {75, 80}

Buffers == UNION {[1..n -> Bytes] : n \in 0..MaxLen}

\* the three detection source tags passed by the wrappers
Sources == {"FileSystemAPI-Write", "BlobURL", "Anchor-Download"}

\* lower-casing of the sample tokens (String.prototype.toLowerCase)
Lower(tok) ==
  CASE tok = ".ZIP" -> ".zip"
    [] tok = "SPIKE App" -> "spike app"
    [] tok = "Robot" -> "robot"
    [] tok = "Arm" -> "arm"
    [] OTHER -> tok

\* number of UTF-16 code units of the sample tokens (String.prototype.length)
TokLen(tok) ==
  CASE tok = "Robot" -> 5
    [] tok = "Arm" -> 3
    [] tok = "SPIKE App" -> 9
    [] tok = " " -> 1
    [] tok = "x100" -> 100
    [] tok = ".llsp3" -> 6
    [] tok = ".llsp" -> 5
    [] tok = ".ZIP" -> 4
    [] tok = ".txt" -> 4
    [] OTHER -> 1

\* file names offered to captureProject: null, "", and names with and
\* without a project extension
Filenames ==
  { Null, Some(<< >>), Some(<<"Robot", ".llsp3">>), Some(<<"Arm", ".llsp">>),
    Some(<<"Robot", ".ZIP">>), Some(<<"Robot", ".txt">>) }

\* What the page shows.  dom: the text of the elements matched by the
\* selector list of extractProjectName, in the order the loops visit them.
\* pathname: window.location.pathname as the list of its '/'-separated
\* segments after the leading slash: "/" is <<"">>, "/p/Gripper" is
\* <<"p", "Gripper">>.
Pages ==
  { [dom |-> << >>, pathname |-> <<"">>],
    [dom |-> << <<" ">>, <<"x100">> >>, pathname |-> <<"p", "Gripper">>],
    [dom |-> << <<"Arm">> >>, pathname |-> <<"">>],
    [dom |-> << <<"SPIKE App">>, <<" ", "Robot", " ">> >>,
     pathname |-> <<"spike.legoeducation.com">>] }

\* new Date().toISOString().slice(0, 10)
Today == "2026-11-05"

(***************************************************************************)
(* State.                                                                  *)
(***************************************************************************)
VARIABLES
  capturedProject,  \* SpikeInterceptor.capturedProject: Null or a buffer
  projectName,      \* SpikeInterceptor.projectName: Null or a text
  dom,              \* the page's candidate texts (environment)
  pathname,         \* window.location.pathname (environment)
  pending,          \* the captureProject call a wrapper has just made and
                    \* whose body has not run yet: Null or its arguments
  ret,              \* return value of the last captureProject call
  lastEvent,        \* detail of the 'spikeprimegit:project-captured' event
                    \* the last captureProject call dispatched, Null if none
  call              \* the intercepted platform call in progress or last
                    \* finished: Null or the wrapper's position and locals

captureVars ==
  <<capturedProject, projectName, dom, pathname, pending, ret, lastEvent,
    call>>

VARIABLES
  revision,         \* the deployed revision of background/github-auth.js:
                    \* "oauth" (OAuth App) or "app" (GitHub App)
  creds,            \* storage github_client_id, github_client_secret
  tokens,           \* storage github_tokens: Null or the token record
  tokenBy,          \* which request wrote github_tokens last, and how
  authState,        \* storage auth_state: Null or the CSRF nonce
  installation,     \* storage github_installation: Null or the record
  now,              \* Date.now(), in milliseconds since the start
  started,          \* number of requests dispatched to the service worker
  proc              \* the handlers in flight: proc[p] is one handler's
                    \* position and local variables

authVars ==
  <<revision, creds, tokens, tokenBy, authState, installation, now,
    started, proc>>

VARIABLES
  remote,           \* the file at the push target on GitHub: Null or its sha
  syncHistory       \* storage sync_history, newest first

pushVars == <<remote, syncHistory>>

VARIABLES
  settings,         \* storage user_settings: Null or the settings object
  csCapturedProject,\* content-script.js capturedProject: Null or the
                    \* project the last capture event carried
  sync,             \* the content script's flows in flight: sync[c] is one
                    \* capture listener or handleSync call and its locals
  events,           \* number of capture events and user actions so far
  quota,            \* number of capture events and user actions that
                    \* one behaviour has
  button            \* the injected sync button: its state ('default',
                    \* 'syncing', 'success', 'error'; disabled while
                    \* 'syncing') and the reset timers that are pending

syncVars == <<settings, csCapturedProject, sync, events, quota, button>>

vars == <<captureVars, authVars, pushVars, syncVars>>

(***************************************************************************)
(* Pure helpers of the interceptor.                                        *)
(***************************************************************************)
\* JavaScript truthiness of a text value that may be null
Truthy(o) == o # Null /\ Val(o) # << >>

\* a signature test that looks at the first byte only
IsZip_FirstByteOnly(buf) == Len(buf) >= 1 /\ buf[1] = 80

\* bytes[0] === 0x50 && bytes[1] === 0x4B; an index past the end reads
\* undefined, which equals neither
IsZip(buf) ==
  /\ Len(buf) >= 1 /\ buf[1] = 80
  /\ Len(buf) >= 2 /\ buf[2] = 75

\* a replacement that knows the .llsp3 extension only
StripExtension_Llsp3Only(filename) ==
  IF Len(filename) > 0 /\ filename[Len(filename)] = ".llsp3"
  THEN SubSeq(filename, 1, Len(filename) - 1)
  ELSE filename

\* filename.replace(/\.(llsp3?|zip)$/i, '')
StripExtension(filename) ==
  IF Len(filename) > 0
       /\ Lower(filename[Len(filename)]) \in {".llsp3", ".llsp", ".zip"}
  THEN SubSeq(filename, 1, Len(filename) - 1)
  ELSE filename

IsSpace(tok) == tok = " "

RECURSIVE TrimLeft(_)
TrimLeft(t) ==
  IF t # << >> /\ IsSpace(Head(t)) THEN TrimLeft(Tail(t)) ELSE t

RECURSIVE TrimRight(_)
TrimRight(t) ==
  IF t # << >> /\ IsSpace(t[Len(t)])
  THEN TrimRight(SubSeq(t, 1, Len(t) - 1))
  ELSE t

\* String.prototype.trim
Trim(t) == TrimRight(TrimLeft(t))

RECURSIVE TextLen(_)
TextLen(t) == IF t = << >> THEN 0 ELSE TokLen(Head(t)) + TextLen(Tail(t))

\* the lower-cased skipWords of extractProjectName
SkipWordsLower ==
  { "spike", "lego", "education", "browser not supported", "not supported",
    "warning", "error", "save", "download", "export" }

\* lowerToken.includes(word) for the sample tokens
TokenIncludes(lowerTok, word) ==
  \/ lowerTok = word
  \/ lowerTok = "spike app" /\ word = "spike"

\* skipWords.some(word => trimmedText.toLowerCase().includes(word.toLowerCase()))
ShouldSkip(trimmedText) ==
  \E i \in 1..Len(trimmedText) : \E w \in SkipWordsLower :
    TokenIncludes(Lower(trimmedText[i]), w)

\* the test an element's text must pass in the selector loops
Acceptable(text) ==
  /\ text # << >>
  /\ TextLen(Trim(text)) > 0
  /\ TextLen(Trim(text)) < 100
  /\ ~ShouldSkip(Trim(text))

\* window.location.pathname.match(/\/([^\/]+)$/): the last segment when it
\* is not empty
UrlMatch(path) ==
  IF Len(path) > 0 /\ path[Len(path)] # ""
  THEN Some(path[Len(path)])
  ELSE Null

\* the name the selector loops and the fallbacks of extractProjectName give
ScanName(d, path) ==
  IF \E i \in 1..Len(d) : Acceptable(d[i])
  THEN LET i == CHOOSE i \in 1..Len(d) :
                  /\ Acceptable(d[i])
                  /\ \A j \in 1..(i - 1) : ~Acceptable(d[j])
       IN  Trim(d[i])
  ELSE IF UrlMatch(path) # Null
            /\ Val(UrlMatch(path)) # "spike.legoeducation.com"
       THEN <<Val(UrlMatch(path))>>
       ELSE <<"SPIKE_Project_", Today>>

\* extractProjectName: the value of this.projectName after the call
ExtractProjectName(current, d, path) ==
  IF Truthy(current) THEN current ELSE Some(ScanName(d, path))

(***************************************************************************)
(* Operations of the interceptor.                                          *)
(***************************************************************************)
\* One of the wrappers (writable.write, the URL.createObjectURL reader, the
\* anchor click fetch) has its ArrayBuffer and calls
\* self.captureProject(arrayBuffer, source, filename).  JavaScript runs the
\* callee before anything else, so nothing else is enabled while a call is
\* pending.
InvokeCapture ==
  /\ pending = Null
  /\ \E buf \in Buffers, source \in Sources, filename \in Filenames :
       pending' = Some([buf |-> buf, source |-> source, filename |-> filename])
  /\ ret' = Null
  /\ lastEvent' = Null
  /\ UNCHANGED <<capturedProject, projectName, dom, pathname>>
  /\ UNCHANGED <<call, authVars, pushVars, syncVars>>

\* the body of captureProject(arrayBuffer, source, filename)
CaptureProject ==
  /\ pending # Null
  /\ LET buf == Val(pending).buf
         source == Val(pending).source
         filename == Val(pending).filename
     IN  IF ~IsZip(buf)
         THEN /\ ret' = Some(FALSE)
              /\ UNCHANGED <<capturedProject, projectName, lastEvent>>
         ELSE LET name == IF Truthy(filename)
                          THEN Some(StripExtension(Val(filename)))
                          ELSE ExtractProjectName(projectName, dom, pathname)
              IN  /\ capturedProject' = Some(buf)
                  /\ projectName' = name
                  /\ lastEvent' = Some([projectName |-> name,
                                        size |-> Len(buf),
                                        source |-> source,
                                        content |-> buf])
                  /\ ret' = Some(TRUE)
  /\ pending' = Null
  /\ UNCHANGED <<dom, pathname>>
  /\ UNCHANGED <<call, authVars, pushVars, syncVars>>

\* the click listener installed on download buttons by
\* findAndMonitorDownloadButtons
DownloadButtonClick ==
  /\ pending = Null
  /\ projectName' = ExtractProjectName(projectName, dom, pathname)
  /\ UNCHANGED <<capturedProject, dom, pathname, pending, ret, lastEvent>>
  /\ UNCHANGED <<call, authVars, pushVars, syncVars>>

\* clearCaptured()
ClearCaptured ==
  /\ pending = Null
  /\ capturedProject' = Null
  /\ projectName' = Null
  /\ UNCHANGED <<dom, pathname, pending, ret, lastEvent>>
  /\ UNCHANGED <<call, authVars, pushVars, syncVars>>

\* the host page re-renders or navigates (environment)
PageChange ==
  /\ pending = Null
  /\ \E pg \in Pages :
       /\ dom' = pg.dom
       /\ pathname' = pg.pathname
  /\ UNCHANGED <<capturedProject, projectName, pending, ret, lastEvent>>
  /\ UNCHANGED <<call, authVars, pushVars, syncVars>>

(***************************************************************************)
(* The wrappers the interceptor installs over platform functions.          *)
(*                                                                         *)
(* One intercepted call is followed at a time.  call holds its position:   *)
(*   api       the wrapped function                                        *)
(*   name      the name of the file handle the writable belongs to         *)
(*   args      the caller's arguments                                      *)
(*   pc        "convert", "capture", "forward", "inspect" or "returned"    *)
(*   invoked   how many times the original function has been invoked       *)
(*   passed    the arguments the original was invoked with                 *)
(*   result    what the original returned, or the error it raised          *)
(*   returned  what the wrapper returned, or the error it raised           *)
(*   threw     whether the capture code raised an error that was caught    *)
(*   deferred  the promise chain the wrapper left behind, Null if none     *)
(*   written   the chunks the original write has stored in the file that   *)
(*             is being saved, in write order                              *)
(***************************************************************************)
\* name.endsWith('.llsp3') || name.endsWith('.llsp')
IsProjectName(name) ==
  Len(name) > 0 /\ name[Len(name)] \in {".llsp3", ".llsp"}

\* FileSystemHandle.name of the sample handles
HandleNames == { <<"Robot", ".llsp3">>, <<"Arm", ".llsp">>, <<"Robot", ".txt">> }

\* the contents the page writes or offers for download
WrittenBuffers == {b \in Buffers : Len(b) = 2}

\* the bytes of the text "[object Object]", which is what new Blob([data])
\* holds for a plain object: '[' 'o' 'b' ...
ObjectText == <<91, 111, 98>>

\* the values the page passes to writable.write(data): a Blob (whose read
\* can fail), an ArrayBuffer, a typed array, a { type: 'write', ... }
\* parameter object and a string
WriteData ==
  [kind : {"Blob"}, bytes : WrittenBuffers, readable : BOOLEAN]
    \cup [kind : {"ArrayBuffer", "View", "Params", "String"},
          bytes : WrittenBuffers, readable : {TRUE}]

\* the handles the platform pickers resolve with; id tells the objects apart
Handles(id) ==
  [id : {id}, name : HandleNames, createWritable : {"original", "none"}]

\* the arrays showOpenFilePicker resolves with
HandleArrays ==
  {<<h>> : h \in Handles(1)}
    \cup {<<h, g>> : h \in Handles(1), g \in Handles(2)}

\* the blobs (and the one other object, a MediaSource) handed to
\* URL.createObjectURL; bytes are the leading bytes of the content
ObjectUrlArgs ==
  [kind : {"Blob"}, size : {100, 6000},
   type : {"application/zip", "application/octet-stream", "", "text/plain"},
   bytes : WrittenBuffers, readable : BOOLEAN]
    \cup [kind : {"MediaSource"}, size : {0}, type : {""},
          bytes : {<< >>}, readable : {TRUE}]

\* the anchors the page clicks: their download attribute and href
Anchors ==
  [download : {Null, Some(<< >>)} \cup {Some(n) : n \in HandleNames},
   href : {"blob:", "https:"}, bytes : WrittenBuffers, readable : BOOLEAN]

\* how a call of an original function ends
Fulfilled(value) == [status |-> "fulfilled", value |-> value]
Rejected(error) == [status |-> "rejected", value |-> error]

IdleCall ==
  [api |-> "none", name |-> << >>, args |-> << >>, pc |-> "returned",
   invoked |-> 0, passed |-> Null, result |-> Null, returned |-> Null,
   threw |-> FALSE, deferred |-> Null, written |-> << >>]

\* chunks the page writes to one file before it closes it
MaxChunks == 2

\* the chunks stored so far in the file the page is saving: those of the
\* writes that came before this call, on the same writable
WrittenSoFar ==
  IF call # Null /\ Val(call).api = "write" THEN Val(call).written ELSE << >>

\* no intercepted call is running and no promise chain is outstanding
Quiet ==
  /\ pending = Null
  /\ call # Null => Val(call).pc = "returned" /\ Val(call).deferred = Null

\* original.apply(this, arguments) ending with the given outcome
Invoke(c, outcome) ==
  [c EXCEPT !.invoked = @ + 1, !.passed = Some(c.args),
            !.result = Some(outcome)]

\* wrapFileHandle(handle): the same handle object, its createWritable
\* replaced when it has one
WrapFileHandle(handle) ==
  IF handle.createWritable = "none"
  THEN handle
  ELSE [handle EXCEPT !.createWritable = "wrapped"]

\* handles.map(handle => wrapFileHandle(handle))
WrapAll(handles) == [i \in DOMAIN handles |-> WrapFileHandle(handles[i])]

\* isLikelyProject of the URL.createObjectURL wrapper
IsLikelyProject(blob) ==
  /\ blob.size > 5000
  /\ blob.type \in {"application/zip", "application/octet-stream", ""}

\* the part of the wrappers that leaves the capture variables alone
WrapperFrame ==
  /\ UNCHANGED <<capturedProject, projectName, dom, pathname>>
  /\ UNCHANGED <<authVars, pushVars, syncVars>>

\* the page calls writable.write(data) on a writable of a wrapped handle:
\* the first write to a file, or a further write to the file of the write
\* before
WriteCalled ==
  /\ Quiet
  /\ Len(WrittenSoFar) < MaxChunks
  /\ \E name \in HandleNames, data \in WriteData :
       /\ WrittenSoFar # << >> => name = Val(call).name
       /\ call' = Some([IdleCall EXCEPT
                          !.api = "write", !.name = name, !.args = <<data>>,
                          !.written = WrittenSoFar,
                          !.pc = IF IsProjectName(name)
                                 THEN "convert" ELSE "forward"])
  /\ UNCHANGED <<pending, ret, lastEvent>>
  /\ WrapperFrame

\* a write wrapper whose conversion is not inside try/catch: a failed read
\* leaves the wrapper before the original is invoked
WriteConvert_Unguarded ==
  /\ call # Null /\ Val(call).api = "write" /\ Val(call).pc = "convert"
  /\ LET c == Val(call)
         data == c.args[1]
     IN  IF data.kind = "Blob" /\ ~data.readable
         THEN /\ call' = Some([c EXCEPT
                                 !.pc = "returned",
                                 !.returned = Some(Rejected("NotReadableError"))])
              /\ UNCHANGED <<pending, ret, lastEvent>>
         ELSE IF data.kind = "String"
         THEN /\ call' = Some([c EXCEPT !.pc = "forward"])
              /\ UNCHANGED <<pending, ret, lastEvent>>
         ELSE /\ pending' = Some([buf |-> IF data.kind = "Params"
                                          THEN ObjectText ELSE data.bytes,
                                  source |-> "FileSystemAPI-Write",
                                  filename |-> Some(c.name)])
              /\ ret' = Null
              /\ lastEvent' = Null
              /\ call' = Some([c EXCEPT !.pc = "capture"])
  /\ WrapperFrame

\* the try block of the write wrapper: find the ArrayBuffer in data and
\* hand it to captureProject; an error is logged and swallowed
WriteConvert ==
  /\ call # Null /\ Val(call).api = "write" /\ Val(call).pc = "convert"
  /\ LET c == Val(call)
         data == c.args[1]
     IN  IF data.kind = "Blob" /\ ~data.readable
         THEN /\ call' = Some([c EXCEPT !.pc = "forward", !.threw = TRUE])
              /\ UNCHANGED <<pending, ret, lastEvent>>
         ELSE IF data.kind = "String"
         THEN /\ call' = Some([c EXCEPT !.pc = "forward"])
              /\ UNCHANGED <<pending, ret, lastEvent>>
         ELSE /\ pending' = Some([buf |-> IF data.kind = "Params"
                                          THEN ObjectText ELSE data.bytes,
                                  source |-> "FileSystemAPI-Write",
                                  filename |-> Some(c.name)])
              /\ ret' = Null
              /\ lastEvent' = Null
              /\ call' = Some([c EXCEPT !.pc = "capture"])
  /\ WrapperFrame

\* return originalWrite.apply(this, arguments)
WriteForward ==
  /\ call # Null /\ Val(call).api = "write"
  /\ \/ Val(call).pc = "forward"
     \/ Val(call).pc = "capture" /\ pending = Null
  /\ \E outcome \in {Fulfilled("undefined"), Rejected("QuotaExceededError")} :
       call' = Some([Invoke(Val(call), outcome) EXCEPT
                       !.pc = "returned", !.returned = Some(outcome),
                       !.written =
                          IF outcome.status = "fulfilled"
                          THEN Append(@, Val(call).args[1].bytes)
                          ELSE @])
  /\ UNCHANGED <<pending, ret, lastEvent>>
  /\ WrapperFrame

\* the page calls writable.close(), after its writes if it made any; the
\* wrapper only logs
CloseCalled ==
  /\ Quiet
  /\ \E name \in HandleNames :
       /\ WrittenSoFar # << >> => name = Val(call).name
       /\ call' = Some([IdleCall EXCEPT
                          !.api = "close", !.name = name, !.pc = "forward",
                          !.written = WrittenSoFar])
  /\ UNCHANGED <<pending, ret, lastEvent>>
  /\ WrapperFrame

\* return originalClose.apply(this, arguments)
CloseForward ==
  /\ call # Null /\ Val(call).api = "close" /\ Val(call).pc = "forward"
  /\ \E outcome \in {Fulfilled("undefined"), Rejected("InvalidStateError")} :
       call' = Some([Invoke(Val(call), outcome) EXCEPT
                       !.pc = "returned", !.returned = Some(outcome)])
  /\ UNCHANGED <<pending, ret, lastEvent>>
  /\ WrapperFrame

\* the page calls showSaveFilePicker(options), showOpenFilePicker(options)
\* or directory.getFileHandle(name, options)
PickerCalled ==
  /\ Quiet
  /\ \E api \in {"showSaveFilePicker", "showOpenFilePicker"} :
       call' = Some([IdleCall EXCEPT
                       !.api = api, !.args = <<"options">>, !.pc = "forward"])
  /\ UNCHANGED <<pending, ret, lastEvent>>
  /\ WrapperFrame

GetFileHandleCalled ==
  /\ Quiet
  /\ \E name \in HandleNames :
       call' = Some([IdleCall EXCEPT
                       !.api = "getFileHandle", !.name = name,
                       !.args = <<name, "options">>, !.pc = "forward"])
  /\ UNCHANGED <<pending, ret, lastEvent>>
  /\ WrapperFrame

\* await original.apply(this, arguments) of the three handle wrappers, then
\* the wrapping of what it resolved with; a rejection (the user dismissed
\* the picker, the file does not exist) leaves the wrapper as it is
PickerSettles ==
  /\ call # Null /\ Val(call).pc = "forward"
  /\ Val(call).api
       \in {"showSaveFilePicker", "showOpenFilePicker", "getFileHandle"}
  /\ LET c == Val(call)
     IN  \/ \E error \in {"AbortError"} :
              call' = Some([Invoke(c, Rejected(error)) EXCEPT
                              !.pc = "returned",
                              !.returned = Some(Rejected(error))])
         \/ /\ c.api = "showOpenFilePicker"
            /\ \E handles \in HandleArrays :
                 call' = Some([Invoke(c, Fulfilled(handles)) EXCEPT
                                 !.pc = "returned",
                                 !.returned =
                                   Some(Fulfilled(WrapAll(handles)))])
         \/ /\ c.api # "showOpenFilePicker"
            /\ \E handle \in Handles(1) :
                 /\ c.api = "getFileHandle" => handle.name = c.name
                 /\ call' = Some([Invoke(c, Fulfilled(handle)) EXCEPT
                                    !.pc = "returned",
                                    !.returned =
                                      Some(Fulfilled(WrapFileHandle(handle)))])
  /\ UNCHANGED <<pending, ret, lastEvent>>
  /\ WrapperFrame

\* the page calls URL.createObjectURL(blob)
CreateObjectURLCalled ==
  /\ Quiet
  /\ \E blob \in ObjectUrlArgs :
       call' = Some([IdleCall EXCEPT
                       !.api = "createObjectURL", !.args = <<blob>>,
                       !.pc = "forward"])
  /\ UNCHANGED <<pending, ret, lastEvent>>
  /\ WrapperFrame

\* const url = originalCreateObjectURL.apply(this, arguments)
CreateObjectURLForward ==
  /\ call # Null /\ Val(call).api = "createObjectURL"
  /\ Val(call).pc = "forward"
  /\ call' = Some([Invoke(Val(call), Fulfilled("blob:url")) EXCEPT
                     !.pc = "inspect"])
  /\ UNCHANGED <<pending, ret, lastEvent>>
  /\ WrapperFrame

\* the rest of the URL.createObjectURL wrapper: start reading a blob that
\* is likely a project, return url
CreateObjectURLInspect ==
  /\ call # Null /\ Val(call).api = "createObjectURL"
  /\ Val(call).pc = "inspect"
  /\ LET c == Val(call)
         blob == c.args[1]
     IN  call' = Some([c EXCEPT
                         !.pc = "returned",
                         !.returned = c.result,
                         !.deferred =
                           IF blob.kind = "Blob" /\ IsLikelyProject(blob)
                           THEN Some([buf |-> blob.bytes,
                                      source |-> "BlobURL",
                                      filename |-> Null,
                                      readable |-> blob.readable])
                           ELSE Null])
  /\ UNCHANGED <<pending, ret, lastEvent>>
  /\ WrapperFrame

\* the page calls anchor.click(); the wrapper starts fetching the blob of a
\* project download
AnchorClickCalled ==
  /\ Quiet
  /\ \E anchor \in Anchors :
       call' = Some([IdleCall EXCEPT
                       !.api = "click", !.pc = "forward",
                       !.deferred =
                         IF /\ Truthy(anchor.download)
                            /\ IsProjectName(Val(anchor.download))
                            /\ anchor.href = "blob:"
                         THEN Some([buf |-> anchor.bytes,
                                    source |-> "Anchor-Download",
                                    filename |-> anchor.download,
                                    readable |-> anchor.readable])
                         ELSE Null])
  /\ UNCHANGED <<pending, ret, lastEvent>>
  /\ WrapperFrame

\* return originalAnchorClick.apply(this, arguments)
AnchorClickForward ==
  /\ call # Null /\ Val(call).api = "click" /\ Val(call).pc = "forward"
  /\ call' = Some([Invoke(Val(call), Fulfilled("undefined")) EXCEPT
                     !.pc = "returned",
                     !.returned = Some(Fulfilled("undefined"))])
  /\ UNCHANGED <<pending, ret, lastEvent>>
  /\ WrapperFrame

\* the promise chain of the blob URL or anchor wrapper settles: its then
\* callback calls captureProject, its catch callback logs the error
DeferredSettles ==
  /\ call # Null /\ Val(call).pc = "returned" /\ Val(call).deferred # Null
  /\ pending = Null
  /\ LET c == Val(call)
         d == Val(c.deferred)
     IN  IF d.readable
         THEN /\ pending' = Some([buf |-> d.buf, source |-> d.source,
                                  filename |-> d.filename])
              /\ ret' = Null
              /\ lastEvent' = Null
              /\ call' = Some([c EXCEPT !.deferred = Null])
         ELSE /\ call' = Some([c EXCEPT !.deferred = Null, !.threw = TRUE])
              /\ UNCHANGED <<pending, ret, lastEvent>>
  /\ WrapperFrame

(***************************************************************************)
(* Part 2: the service worker.                                             *)
(*                                                                         *)
(* Every message handler is an async function.  A handler in flight is a   *)
(* process proc[p]; one action is the code a handler runs between two      *)
(* awaits that touch shared storage, the network or the authorization      *)
(* window.  An error message is a text: the sequence of the pieces the     *)
(* template literal concatenates.                                          *)
(***************************************************************************)
\* handlers that can be in flight at the same time
NumProcs == 1
\* requests dispatched in one behaviour
MaxOps == 1
\* number of clock steps in one behaviour
MaxTime == 1

Procs == 1..NumProcs

\* TOKEN_REFRESH_THRESHOLD = 5 * 60 * 1000
TOKEN_REFRESH_THRESHOLD == 5 * 60 * 1000
\* data.expires_in || 28800
DefaultExpiresIn == 28800
\* the clock advances by one refresh threshold at a time
TickMs == TOKEN_REFRESH_THRESHOLD

Revisions == {"oauth", "app"}

\* stored credentials: nothing configured, and the placeholder id with a
\* secret
NoCreds == [id |-> Null, secret |-> Null]
CredConfigs ==
  { NoCreds,
    [id |-> Some(<<"SET_ME_UP">>), secret |-> Some(<<"secret">>)] }

\* the nonce an attacker puts in a forged redirect
ForgedState == 0

\* what the token endpoint can answer (and the fetch itself can reject):
\* net = FALSE is a network failure, ok is response.ok, the other fields are
\* the members of the JSON body
TokenResponses ==
  { [net |-> FALSE, ok |-> FALSE, error |-> Null, access_token |-> Null,
     refresh_token |-> Null, expires_in |-> Null, scope |-> Null],
    [net |-> TRUE, ok |-> FALSE, error |-> Null, access_token |-> Null,
     refresh_token |-> Null, expires_in |-> Null, scope |-> Null],
    [net |-> TRUE, ok |-> TRUE, error |-> Some("bad_verification_code"),
     access_token |-> Null, refresh_token |-> Null, expires_in |-> Null,
     scope |-> Null],
    [net |-> TRUE, ok |-> TRUE, error |-> Null, access_token |-> Null,
     refresh_token |-> Null, expires_in |-> Null, scope |-> Null],
    [net |-> TRUE, ok |-> TRUE, error |-> Null, access_token |-> Some("ghu_A"),
     refresh_token |-> Some("ghr_1"), expires_in |-> Some(600),
     scope |-> Some("repo")],
    [net |-> TRUE, ok |-> TRUE, error |-> Null, access_token |-> Some("gho_C"),
     refresh_token |-> Null, expires_in |-> Null, scope |-> Some("repo")],
    [net |-> TRUE, ok |-> TRUE, error |-> Null, access_token |-> Some("ghu_D"),
     refresh_token |-> Null, expires_in |-> Some(600), scope |-> Some("repo")] }

\* what api.github.com can answer: the status and status text, the
\* X-RateLimit-Remaining and X-RateLimit-Reset headers and the message member
\* of an error body
ApiOk ==
  [status |-> 200, statusText |-> "OK", remaining |-> Some("4999"),
   reset |-> Some(1700), message |-> Null]
ApiNotFound ==
  [status |-> 404, statusText |-> "Not Found", remaining |-> Some("4998"),
   reset |-> Some(1700), message |-> Some("Not Found")]
ApiRateLimited ==
  [status |-> 403, statusText |-> "Forbidden", remaining |-> Some("0"),
   reset |-> Some(1700), message |-> Some("API rate limit exceeded")]
ApiServerError ==
  [status |-> 500, statusText |-> "", remaining |-> Null, reset |-> Null,
   message |-> Null]
ApiUnprocessable ==
  [status |-> 422, statusText |-> "Unprocessable Entity",
   remaining |-> Some("4997"), reset |-> Some(1700),
   message |-> Some("Invalid request. \"sha\" wasn't supplied.")]

ApiFailures == {ApiNotFound, ApiRateLimited, ApiServerError}

\* response.ok
ResponseOk(r) == r.status >= 200 /\ r.status <= 299

\* new Date(resetTime * 1000).toLocaleString(): the rendering of an instant
\* given in milliseconds, as a text
LocaleString(ms) == <<"date ", ToString(ms)>>

\* response.headers.get('X-RateLimit-Reset') used as a number: a missing
\* header is null, and null * 1000 is 0
ResetTime(r) == IF r.reset = Null THEN 0 ELSE Val(r.reset)

\* the response tells the caller that the quota is used up
QuotaUsedUp(r) == ~ResponseOk(r) /\ r.remaining = Some("0")

(***************************************************************************)
(* Handler state.                                                          *)
(***************************************************************************)
\* a handler slot with no request in it
IdleProc ==
  [ pc |-> "idle",        \* position
    op |-> "none",        \* message type being handled
    id |-> 0,             \* sequence number of the request
    cont |-> "none",      \* who awaits getValidAccessToken
    nonce |-> Null,       \* authenticate: state
    redir |-> Null,       \* authenticate: code, returnedState, error
    newTokens |-> Null,   \* tokens of authenticate / newTokens of refresh
    bearer |-> Null,      \* token returned by getValidAccessToken
    authorization |-> Null, \* Bearer token of the API request this
                          \* operation is about to send or has in flight
    err |-> Null,         \* message of the error being thrown
    resp |-> Null,        \* response passed to sendResponse
    read |-> Null,        \* getValidAccessToken: tokens it read, time read
    refreshes |-> 0,      \* refreshAccessToken calls of this getValidAccessToken
    exchanges |-> 0,      \* code exchanges requested by this authenticate
    limited |-> Null,     \* rate-limit response this request received
    repository |-> << >>, \* PUSH_PROJECT: repository, split at '/'
    projectName |-> "",   \* PUSH_PROJECT: projectName
    existing |-> Null,    \* pushSpikeProject: existingFile
    lookedUp |-> Null,    \* the file that was there when it was looked up
    puts |-> 0,           \* PUT requests this call has issued
    history |-> << >>,    \* storeSyncHistory: history
    syncRecord |-> Null,  \* storeSyncHistory: syncRecord
    arg |-> Null,         \* the member of message.data a handler works on
    zipContent |-> Null,  \* pushSpikeProject: zipContent
    commitMessage |-> Null, \* pushSpikeProject: commitMessage
    sent |-> Null,        \* the commitMessage member of message.data
    putBody |-> Null,     \* pushFile: body of the PUT request
    failed |-> FALSE ]    \* a token refresh, code exchange or upload this
                          \* request asked for has failed

Set(p, r) == proc' = [proc EXCEPT ![p] = r]

\* the locals of getValidAccessToken and refreshAccessToken go out of scope
\* when the function that awaited the token has used it
Leave(r) ==
  [r EXCEPT !.read = Null, !.newTokens = Null, !.bearer = Null,
            !.authorization = Null, !.refreshes = 0, !.cont = "none"]

\* a free slot is taken in order: which slot holds a request has no effect
FirstIdle(p) ==
  /\ proc[p].pc = "idle"
  /\ \A q \in Procs : q < p => proc[q].pc # "idle"

\* the response objects the handlers build
\* (a member the object does not have is Null; data is the payload member:
\* user, repos, branches, history, settings, redirectUri or clientId)
Success ==
  [success |-> Some(TRUE), connected |-> Null, error |-> Null, action |-> Null,
   data |-> Null]
SuccessWith(payload) ==
  [success |-> Some(TRUE), connected |-> Null, error |-> Null, action |-> Null,
   data |-> Some(payload)]
Failure(msg) ==
  [success |-> Some(FALSE), connected |-> Null, error |-> Some(msg),
   action |-> Null, data |-> Null]
Connected ==
  [success |-> Null, connected |-> Some(TRUE), error |-> Null, action |-> Null,
   data |-> Null]
NotConnected ==
  [success |-> Null, connected |-> Some(FALSE), error |-> Null, action |-> Null,
   data |-> Null]
NotConnectedError(msg) ==
  [success |-> Null, connected |-> Some(FALSE), error |-> Some(msg),
   action |-> Null, data |-> Null]
Pushed(action) ==
  [success |-> Some(TRUE), connected |-> Null, error |-> Null,
   action |-> Some(action), data |-> Null]

\* a catch block that answers without the error's message
HandlerCatch_NoMessage(r, msg) ==
  [Leave(r) EXCEPT !.pc = "done",
            !.err = Null,
            !.resp = Some(IF r.op = "CHECK_CONNECTION"
                          THEN NotConnected
                          ELSE [Failure(msg) EXCEPT !.error = Null])]

\* the catch block of the message handler a request is in
HandlerCatch(r, msg) ==
  [Leave(r) EXCEPT !.pc = "done",
            !.err = Null,
            !.resp = Some(IF r.op = "CHECK_CONNECTION"
                          THEN NotConnectedError(msg)
                          ELSE Failure(msg))]

\* an error thrown out of getValidAccessToken or out of the call that
\* awaited it propagates to the handler; the GitHub App's
\* getAccessibleRepositories catches it, returns [] and GET_REPOS goes on to
\* listUserRepos, which asks for a token again
Raise(r, msg) ==
  IF r.cont = "accessible" /\ revision = "app"
  THEN [Leave(r) EXCEPT !.pc = "gv_getTokens", !.cont = "list"]
  ELSE HandlerCatch(r, msg)

(***************************************************************************)
(* Storage helpers of github-auth.js.                                      *)
(***************************************************************************)
\* getClientId(): the stored id, else the hard-coded one
GetClientId ==
  IF Truthy(creds.id)
  THEN Val(creds.id)
  ELSE IF revision = "oauth" THEN <<"SET_ME_UP">> ELSE <<"Iv23li5u3EhSyZ8px0hQ">>

\* getClientSecret(): the stored secret, else null (OAuth App) or the
\* hard-coded one (GitHub App)
GetClientSecret ==
  IF Truthy(creds.secret)
  THEN creds.secret
  ELSE IF revision = "oauth"
       THEN Null
       ELSE Some(<<"987c47405aff44323aa2fe7f1c0fb1251403866f">>)

\* the check authenticate() makes on the client id before it starts a flow
ClientIdUsable ==
  IF revision = "oauth"
  THEN GetClientId # << >>
  ELSE GetClientId # << >> /\ GetClientId # <<"SET_ME_UP">>

\* storeTokens(tokens): the record written under github_tokens
StoredRecord(t, time) ==
  [ accessToken |-> t.accessToken,
    refreshToken |-> t.refreshToken,
    expiresAt |-> time + (t.expiresIn * 1000),
    scope |-> t.scope ]

\* clearAuth() that forgets only the token record
ClearAuth_TokensOnly ==
  /\ tokens' = Null
  /\ UNCHANGED <<authState, installation>>

\* clearAuth(): chrome.storage.local.remove of the auth keys
ClearAuth ==
  /\ tokens' = Null
  /\ authState' = Null
  /\ installation' = IF revision = "app" THEN Null ELSE installation

\* the expiry test shared by isAuthenticated and getValidAccessToken
TimeUntilExpiry(t, time) == t.expiresAt - time

\* a refresh test that lets a token at the threshold through
NeedsRefresh_Strict(t, time) ==
  TimeUntilExpiry(t, time) < TOKEN_REFRESH_THRESHOLD

\* timeUntilExpiry <= TOKEN_REFRESH_THRESHOLD
NeedsRefresh(t, time) ==
  TimeUntilExpiry(t, time) <= TOKEN_REFRESH_THRESHOLD

(***************************************************************************)
(* getValidAccessToken and refreshAccessToken.                             *)
(***************************************************************************)
\* the caller resumes with the token getValidAccessToken returned
Continue(r, token) ==
  [r EXCEPT !.bearer = Some(token),
            !.authorization = Some(token),
            !.pc = CASE r.cont = "user" -> "user_fetch"
                     [] r.cont = "repos" -> "repos_getInstallation"
                     [] r.cont = "get" -> "get_fetch"
                     [] r.cont = "put" -> "put_fetch"
                     [] r.cont = "accessible" ->
                          IF revision = "app" THEN "acc_getInstallation"
                                              ELSE "acc_fetch"
                     [] r.cont = "list" ->
                          IF revision = "app" THEN "list_getInstallation"
                                              ELSE "list_fetch"
                     [] r.cont = "branches" -> "branches_fetch",
            !.puts = IF r.cont = "put" THEN @ + 1 ELSE @]

\* getValidAccessToken: await getTokens(), the expiry test, and either the
\* return of the stored token or the call of refreshAccessToken
GvGetTokens(p) ==
  /\ proc[p].pc = "gv_getTokens"
  /\ IF tokens = Null
     THEN Set(p, Raise(proc[p], <<"Not authenticated">>))
     ELSE LET r == [proc[p] EXCEPT !.read = Some([rec |-> Val(tokens),
                                                  at |-> now])]
          IN  IF NeedsRefresh(Val(tokens), now)
              THEN Set(p, [r EXCEPT !.pc = "rf_getTokens",
                                    !.refreshes = @ + 1])
              ELSE Set(p, Continue(r, Val(tokens).accessToken))
  /\ UNCHANGED <<revision, creds, tokens, tokenBy, authState, installation,
                 now, started>>
  /\ UNCHANGED <<captureVars, pushVars, syncVars>>

\* refreshAccessToken: await getTokens(), the refresh-token test, the client
\* id, and the POST to the token endpoint
RfGetTokens(p) ==
  /\ proc[p].pc = "rf_getTokens"
  /\ IF tokens = Null \/ Val(tokens).refreshToken = Null \/ GetClientId = << >>
     THEN Set(p, [proc[p] EXCEPT !.pc = "gv_clearAuth"])
     ELSE Set(p, [proc[p] EXCEPT !.pc = "rf_fetch"])
  /\ UNCHANGED <<revision, creds, tokens, tokenBy, authState, installation,
                 now, started>>
  /\ UNCHANGED <<captureVars, pushVars, syncVars>>

\* refreshAccessToken: the token endpoint answers
RfResponse(p) ==
  /\ proc[p].pc = "rf_fetch"
  /\ \E d \in TokenResponses :
       IF ~d.net \/ ~d.ok \/ d.error # Null
       THEN Set(p, [proc[p] EXCEPT !.pc = "gv_clearAuth", !.failed = TRUE])
       ELSE Set(p, [proc[p] EXCEPT
                      !.pc = "rf_store",
                      !.newTokens =
                         Some([accessToken |-> d.access_token,
                               refreshToken |-> d.refresh_token,
                               expiresIn |-> IF d.expires_in = Null
                                             THEN DefaultExpiresIn
                                             ELSE Val(d.expires_in),
                               scope |-> d.scope])])
  /\ UNCHANGED <<revision, creds, tokens, tokenBy, authState, installation,
                 now, started>>
  /\ UNCHANGED <<captureVars, pushVars, syncVars>>

\* refreshAccessToken: await storeTokens(newTokens); return newTokens, of
\* which getValidAccessToken returns the accessToken
RfStore(p) ==
  /\ proc[p].pc = "rf_store"
  /\ tokens' = Some(StoredRecord(Val(proc[p].newTokens), now))
  /\ tokenBy' = Some([id |-> proc[p].id, via |-> "refresh"])
  /\ Set(p, Continue(proc[p], Val(proc[p].newTokens).accessToken))
  /\ UNCHANGED <<revision, creds, authState, installation, now, started>>
  /\ UNCHANGED <<captureVars, pushVars, syncVars>>

\* getValidAccessToken: the catch block around refreshAccessToken
GvClearAuth(p) ==
  /\ proc[p].pc = "gv_clearAuth"
  /\ ClearAuth
  /\ tokenBy' = Null
  /\ Set(p, Raise(proc[p],
                  <<"Token expired and refresh failed. Please re-authenticate.">>))
  /\ UNCHANGED <<revision, creds, now, started>>
  /\ UNCHANGED <<captureVars, pushVars, syncVars>>

\* getAuthenticatedUser: api.github.com/user answers
UserResponse(p) ==
  /\ proc[p].pc = "user_fetch"
  /\ \E a \in {ApiOk} \cup ApiFailures :
       IF ~ResponseOk(a)
       THEN Set(p, Raise([proc[p] EXCEPT
                            !.limited = IF QuotaUsedUp(a) THEN Some(a) ELSE @],
                         <<"Failed to get user info: ", ToString(a.status)>>))
       ELSE Set(p, [Leave(proc[p]) EXCEPT
                      !.pc = "done",
                      !.resp = Some(IF proc[p].op = "CHECK_CONNECTION"
                                    THEN Connected ELSE Success)])
  /\ UNCHANGED <<revision, creds, tokens, tokenBy, authState, installation,
                 now, started>>
  /\ UNCHANGED <<captureVars, pushVars, syncVars>>

(***************************************************************************)
(* CHECK_CONNECTION.                                                       *)
(***************************************************************************)
\* isAuthenticated() on the record read from storage
IsAuthenticated ==
  /\ tokens # Null
  /\ TimeUntilExpiry(Val(tokens), now) > TOKEN_REFRESH_THRESHOLD

\* messageHandlers.CHECK_CONNECTION up to the call of getAuthenticatedUser,
\* for the request r
CheckConnection(r) ==
  IF ~IsAuthenticated
  THEN [r EXCEPT !.pc = "done", !.resp = Some(NotConnected)]
  ELSE [r EXCEPT !.pc = "gv_getTokens", !.cont = "user"]

\* a CHECK_CONNECTION message arrives (from the popup or the injected panel)
StartCheckConnection(p) ==
  /\ FirstIdle(p)
  /\ started < MaxOps
  /\ started' = started + 1
  /\ Set(p, CheckConnection([IdleProc EXCEPT !.op = "CHECK_CONNECTION",
                                             !.id = started + 1]))
  /\ UNCHANGED <<revision, creds, tokens, tokenBy, authState, installation, now>>
  /\ UNCHANGED <<captureVars, pushVars, syncVars>>

(***************************************************************************)
(* AUTHENTICATE.                                                           *)
(***************************************************************************)
\* what launchWebAuthFlow can resolve with for a flow whose nonce is n: the
\* error, code and state parameters of the redirect URL; stored is the nonce
\* in storage when the redirect arrives
Redirects(n) ==
  [ error : {Null, Some("access_denied")},
    code : {Null, Some("c0de")},
    state : {Null, Some(n), Some(ForgedState)},
    stored : {authState} ]

\* returnedState !== storedState: searchParams.get gives null for a missing
\* parameter and storage gives undefined for a missing key, which differ
StateDiffers(returned, stored) ==
  returned = Null \/ stored = Null \/ Val(returned) # Val(stored)

\* a verification that accepts every returned state
VerifyFails_Never(returned, stored) == FALSE

\* the test authenticate() makes before it exchanges the code
VerifyFails(returned, stored) == StateDiffers(returned, stored)

\* messageHandlers.AUTHENTICATE, authenticate() up to generateState(), for
\* the request r; the nonce of a request is its sequence number
Authenticate(r) ==
  IF ~ClientIdUsable
  THEN HandlerCatch(r, <<"GitHub App not configured. ">>)
  ELSE [r EXCEPT !.pc = "auth_setState", !.nonce = Some(r.id)]

\* an AUTHENTICATE message arrives
StartAuthenticate(p) ==
  /\ FirstIdle(p)
  /\ started < MaxOps
  /\ started' = started + 1
  /\ Set(p, Authenticate([IdleProc EXCEPT !.op = "AUTHENTICATE",
                                          !.id = started + 1]))
  /\ UNCHANGED <<revision, creds, tokens, tokenBy, authState, installation, now>>
  /\ UNCHANGED <<captureVars, pushVars, syncVars>>

\* chrome.storage.local.set({auth_state: state})
AuthSetState(p) ==
  /\ proc[p].pc = "auth_setState"
  /\ authState' = proc[p].nonce
  /\ Set(p, [proc[p] EXCEPT !.pc = "auth_launch"])
  /\ UNCHANGED <<revision, creds, tokens, tokenBy, installation, now, started>>
  /\ UNCHANGED <<captureVars, pushVars, syncVars>>

\* launchWebAuthFlow rejects: the user closed the window
AuthLaunchRejects(p) ==
  /\ proc[p].pc = "auth_launch"
  /\ Set(p, [proc[p] EXCEPT !.pc = "auth_catch",
                            !.err = Some(<<"The user did not approve access.">>)])
  /\ UNCHANGED <<revision, creds, tokens, tokenBy, authState, installation,
                 now, started>>
  /\ UNCHANGED <<captureVars, pushVars, syncVars>>

\* launchWebAuthFlow resolves with the redirect URL; its parameters are
\* parsed and the error and code tests are made
AuthLaunchResolves(p) ==
  /\ proc[p].pc = "auth_launch"
  /\ \E u \in Redirects(Val(proc[p].nonce)) :
       LET r == [proc[p] EXCEPT !.redir = Some(u)]
       IN  IF u.error # Null
           THEN Set(p, [r EXCEPT
                          !.pc = "auth_catch",
                          !.err = Some(<<"GitHub authorization failed: ",
                                         Val(u.error)>>)])
           ELSE IF u.code = Null
                THEN Set(p, [r EXCEPT
                               !.pc = "auth_catch",
                               !.err = Some(<<"No authorization code received">>)])
                ELSE Set(p, [r EXCEPT !.pc = "auth_verify"])
  /\ UNCHANGED <<revision, creds, tokens, tokenBy, authState, installation,
                 now, started>>
  /\ UNCHANGED <<captureVars, pushVars, syncVars>>

\* the stored state is read and compared; exchangeCodeForToken reads the
\* credentials and posts the code
AuthVerify(p) ==
  /\ proc[p].pc = "auth_verify"
  /\ LET r == [proc[p] EXCEPT
                  !.redir = Some([Val(@) EXCEPT !.stored = authState])]
     IN  IF VerifyFails(Val(r.redir).state, authState)
         THEN Set(p, [r EXCEPT
                        !.pc = "auth_catch",
                        !.err = Some(<<"State mismatch - possible CSRF attack">>)])
         ELSE IF GetClientId = << >> \/ GetClientSecret = Null
              THEN Set(p, [r EXCEPT
                             !.pc = "auth_catch",
                             !.err = Some(<<"OAuth credentials not configured. ">>)])
              ELSE Set(p, [r EXCEPT !.pc = "auth_exchange",
                                    !.exchanges = @ + 1])
  /\ UNCHANGED <<revision, creds, tokens, tokenBy, authState, installation,
                 now, started>>
  /\ UNCHANGED <<captureVars, pushVars, syncVars>>

\* exchangeCodeForToken: the token endpoint answers; every error of the try
\* block is caught and rethrown with a prefix
AuthExchangeResponse(p) ==
  /\ proc[p].pc = "auth_exchange"
  /\ \E d \in TokenResponses :
       LET fail(msg) ==
             Set(p, [proc[p] EXCEPT
                       !.pc = "auth_catch",
                       !.failed = TRUE,
                       !.err = Some(<<"Failed to exchange token: ">> \o msg)])
       IN  IF ~d.net THEN fail(<<"Failed to fetch">>)
           ELSE IF ~d.ok THEN fail(<<"Token exchange failed: ", "500">>)
           ELSE IF d.error # Null
                THEN fail(<<"GitHub error: ", Val(d.error), " - ">>)
           ELSE IF d.access_token = Null
                THEN fail(<<"No access token received from GitHub">>)
           ELSE Set(p, [proc[p] EXCEPT
                          !.pc = "auth_store",
                          !.newTokens =
                             Some([accessToken |-> d.access_token,
                                   refreshToken |-> d.refresh_token,
                                   expiresIn |-> IF d.expires_in = Null
                                                 THEN DefaultExpiresIn
                                                 ELSE Val(d.expires_in),
                                   scope |-> d.scope])])
  /\ UNCHANGED <<revision, creds, tokens, tokenBy, authState, installation,
                 now, started>>
  /\ UNCHANGED <<captureVars, pushVars, syncVars>>

\* await storeTokens(tokens)
AuthStoreTokens(p) ==
  /\ proc[p].pc = "auth_store"
  /\ tokens' = Some(StoredRecord(Val(proc[p].newTokens), now))
  /\ tokenBy' = Some([id |-> proc[p].id, via |-> "exchange"])
  /\ Set(p, [proc[p] EXCEPT
               !.pc = IF revision = "app"
                      THEN "auth_installations" ELSE "auth_removeState",
               !.authorization =
                  IF revision = "app"
                  THEN Some(Val(proc[p].newTokens).accessToken) ELSE @])
  /\ UNCHANGED <<revision, creds, authState, installation, now, started>>
  /\ UNCHANGED <<captureVars, pushVars, syncVars>>

\* GitHub App: getInstallations(tokens.accessToken) is answered
AuthInstallationsResponse(p) ==
  /\ proc[p].pc = "auth_installations"
  /\ \/ \E a \in ApiFailures :
          Set(p, [proc[p] EXCEPT
                    !.pc = "auth_catch",
                    !.authorization = Null,
                    !.limited = IF QuotaUsedUp(a) THEN Some(a) ELSE @,
                    !.err = Some(<<"Failed to get installations: ", ToString(a.status)>>)])
     \/ \E n \in {0, 1} :
          Set(p, [proc[p] EXCEPT !.authorization = Null,
                                 !.pc = IF n = 0
                                        THEN "auth_noInstallation"
                                        ELSE "auth_setInstallation"])
  /\ UNCHANGED <<revision, creds, tokens, tokenBy, authState, installation,
                 now, started>>
  /\ UNCHANGED <<captureVars, pushVars, syncVars>>

\* GitHub App: installations.length === 0: await clearAuth(), then throw
AuthNoInstallation(p) ==
  /\ proc[p].pc = "auth_noInstallation"
  /\ ClearAuth
  /\ tokenBy' = Null
  /\ Set(p, [proc[p] EXCEPT
               !.pc = "auth_catch",
               !.err = Some(<<"No GitHub App installations found. ">>)])
  /\ UNCHANGED <<revision, creds, now, started>>
  /\ UNCHANGED <<captureVars, pushVars, syncVars>>

\* GitHub App: the first installation is stored
AuthSetInstallation(p) ==
  /\ proc[p].pc = "auth_setInstallation"
  /\ installation' = Some([id |-> 1])
  /\ Set(p, [proc[p] EXCEPT !.pc = "auth_removeState"])
  /\ UNCHANGED <<revision, creds, tokens, tokenBy, authState, now, started>>
  /\ UNCHANGED <<captureVars, pushVars, syncVars>>

\* a catch block that rethrows without touching storage
AuthCatch_KeepState(p) ==
  /\ proc[p].pc = "auth_catch"
  /\ Set(p, HandlerCatch(proc[p], Val(proc[p].err)))
  /\ UNCHANGED <<revision, creds, tokens, tokenBy, authState, installation,
                 now, started>>
  /\ UNCHANGED <<captureVars, pushVars, syncVars>>

\* the catch block of authenticate(): remove auth_state and rethrow, which
\* the AUTHENTICATE handler turns into its failure response
AuthCatch(p) ==
  /\ proc[p].pc = "auth_catch"
  /\ authState' = Null
  /\ Set(p, HandlerCatch(proc[p], Val(proc[p].err)))
  /\ UNCHANGED <<revision, creds, tokens, tokenBy, installation, now, started>>
  /\ UNCHANGED <<captureVars, pushVars, syncVars>>

\* the success path of authenticate(): remove auth_state and return; the
\* handler goes on to getAuthenticatedUser()
AuthRemoveState(p) ==
  /\ proc[p].pc = "auth_removeState"
  /\ authState' = Null
  /\ Set(p, [proc[p] EXCEPT !.pc = "gv_getTokens", !.cont = "user",
                            !.newTokens = Null])
  /\ UNCHANGED <<revision, creds, tokens, tokenBy, installation, now, started>>
  /\ UNCHANGED <<captureVars, pushVars, syncVars>>

(***************************************************************************)
(* PUSH_PROJECT: github-api.js.                                            *)
(***************************************************************************)
\* history.splice(50)
HistoryCap == 50

\* the repositories a push is asked for, split at '/'
Repositories == { <<"octo", "robots">>, <<"octo", "lab404">>, <<"octo">> }

\* the project names a push is asked for
ProjectNames == {"Robot", "My Bot"}

\* what the installation-repositories listing can hold
ReposLists == { {}, {<<"octo", "robots">>, <<"octo", "lab404">>} }

\* projectName.replace(/[^a-zA-Z0-9-_]/g, '_')
SanitizedName(name) ==
  CASE name = "My Bot" -> "My_Bot"
    [] OTHER -> name

\* the repository as it was written: its parts joined by '/'
FullName(repository) ==
  IF Len(repository) = 1
  THEN repository
  ELSE <<repository[1], "/", repository[2]>>

\* `${projectPath}${sanitizedName}.llsp3` with the default projectPath
FilePath(name) == <<"projects/", SanitizedName(name), ".llsp3">>

\* `/repos/${owner}/${repo}/contents/${path}`
ContentsEndpoint(r) ==
  <<"/repos/", r.repository[1], "/", r.repository[2], "/contents/">>
    \o FilePath(r.projectName)

\* errorData.message || response.statusText || `HTTP ${response.status}`
ErrorMessage(a) ==
  IF a.message # Null /\ Val(a.message) # ""
  THEN <<Val(a.message)>>
  ELSE IF a.statusText # ""
       THEN <<a.statusText>>
       ELSE <<"HTTP ", ToString(a.status)>>

\* githubRequest: the error it throws for a response, Null when it returns
GithubRequestError(a, method, endpoint) ==
  IF a.status = 403 /\ a.remaining = Some("0")
  THEN Some(<<"GitHub API rate limit exceeded. Resets at ">>
              \o LocaleString(ResetTime(a) * 1000))
  ELSE IF ~ResponseOk(a)
       THEN Some(ErrorMessage(a)
                   \o <<" (", ToString(a.status), " on ", method, " ">>
                   \o endpoint \o <<")">>)
       ELSE Null

\* a piece of text that contains '404'
Has404(piece) == piece \in {"404", "lab404"}

\* a piece of text that contains 'not found' once in lower case
HasNotFound(piece) == piece \in {"Not Found"}

\* error.message.includes('404') ||
\* error.message.toLowerCase().includes('not found')
LooksNotFound(msg) ==
  \E i \in 1..Len(msg) : Has404(msg[i]) \/ HasNotFound(msg[i])

\* what GET /repos/.../contents/... can answer when the file is f
ContentsAnswers(f) ==
  IF f = Null
  THEN {ApiNotFound, ApiRateLimited, ApiServerError}
  ELSE {ApiOk, ApiRateLimited, ApiServerError}

\* what PUT /repos/.../contents/... can answer when the file is f and the
\* request carries sha
PutAnswers(f, sha) ==
  IF sha = f
  THEN {ApiOk, ApiRateLimited, ApiServerError}
  ELSE {ApiUnprocessable, ApiRateLimited, ApiServerError}

\* A base64 text is the sequence of its characters: 0..63 stands for the
\* character of that index in the alphabet A-Z a-z 0-9 + /, Base64Pad for '='
Base64Pad == 64

\* binary += String.fromCharCode(bytes[i]): the string whose i-th code unit
\* is the i-th byte
BinaryString(bytes) == [i \in 1..Len(bytes) |-> bytes[i]]

\* btoa(binary): three code units give four characters; a last group of one
\* or two code units is filled with zero bits and padded with '='
RECURSIVE Btoa(_)
Btoa(binary) ==
  IF Len(binary) = 0 THEN << >>
  ELSE IF Len(binary) = 1
  THEN << binary[1] \div 4, (binary[1] % 4) * 16, Base64Pad, Base64Pad >>
  ELSE IF Len(binary) = 2
  THEN << binary[1] \div 4,
          (binary[1] % 4) * 16 + binary[2] \div 16,
          (binary[2] % 16) * 4,
          Base64Pad >>
  ELSE << binary[1] \div 4,
          (binary[1] % 4) * 16 + binary[2] \div 16,
          (binary[2] % 16) * 4 + binary[3] \div 64,
          binary[3] % 64 >>
         \o Btoa(SubSeq(binary, 4, Len(binary)))

\* atob(text): four characters give three code units, fewer where the group
\* ends with '='
RECURSIVE AtobString(_)
AtobString(text) ==
  IF Len(text) < 4 THEN << >>
  ELSE LET first == text[1] * 4 + text[2] \div 16
           rest == AtobString(SubSeq(text, 5, Len(text)))
       IN  IF text[3] = Base64Pad
           THEN << first >> \o rest
           ELSE IF text[4] = Base64Pad
           THEN << first, (text[2] % 16) * 16 + text[3] \div 4 >> \o rest
           ELSE << first,
                   (text[2] % 16) * 16 + text[3] \div 4,
                   (text[3] % 4) * 64 + text[4] >> \o rest

\* arrayBufferToBase64(buffer): the base64 text of the bytes
ArrayBufferToBase64(buffer) == Btoa(BinaryString(buffer))

\* a decoding that keeps the low seven bits of each code unit
Atob_SevenBit(text) ==
  LET binaryString == AtobString(text)
  IN  [i \in 1..Len(binaryString) |-> binaryString[i] % 128]

\* atob(zipContent) copied into an ArrayBuffer: bytes[i] =
\* binaryString.charCodeAt(i), stored in a Uint8Array
Atob(text) ==
  LET binaryString == AtobString(text)
  IN  [i \in 1..Len(binaryString) |-> binaryString[i] % 256]

\* a value interpolated into a template literal: undefined is rendered as
\* the text 'undefined'
Interpolated(o) == IF o = Null THEN <<"undefined">> ELSE Val(o)

\* the commit message pushSpikeProject builds: the GitHub App revision
\* interpolates its commitMessage parameter, the OAuth App revision has none
FullCommitMessage(action, name, commitMessage, time) ==
  IF revision = "app"
  THEN <<action, " SPIKE project: ", name, "\n\n">>
         \o Interpolated(commitMessage)
         \o <<"\n\n---\nSynced from LEGO SPIKE Prime web editor\nTimestamp: ",
              ToString(time)>>
  ELSE <<action, " SPIKE project: ", name,
         "\n\nSynced from LEGO SPIKE Prime web editor\nTimestamp: ",
         ToString(time)>>

\* pushFile: the body of the PUT request, built before the token is asked
\* for
PutBody(r, existingFile, time) ==
  [message |-> FullCommitMessage(IF existingFile # Null THEN "Update" ELSE "Add",
                                 r.projectName, r.commitMessage, time),
   content |-> ArrayBufferToBase64(Val(r.zipContent)),
   sha |-> existingFile]

\* the members of message.data of a PUSH_PROJECT request
PushData(name, content, repository, branch, commitMessage) ==
  [projectName |-> name, zipContent |-> ArrayBufferToBase64(content),
   repository |-> repository, branch |-> branch,
   commitMessage |-> commitMessage]

\* messageHandlers.PUSH_PROJECT: the members of message.data it destructures
\* and passes to pushSpikeProject; commitMessage is not one of them
PushRequest(data) ==
  [IdleProc EXCEPT !.op = "PUSH_PROJECT",
                   !.repository = data.repository,
                   !.projectName = data.projectName,
                   !.zipContent = Some(Atob(data.zipContent)),
                   !.commitMessage = Null,
                   !.sent = data.commitMessage]

\* pushSpikeProject after validateRepositoryAccess: the split of repository,
\* the file path, and the call of getFileIfExists, which asks for a token
AfterValidate(r) ==
  IF r.op = "GET_BRANCHES"
  THEN [Leave(r) EXCEPT !.pc = "gv_getTokens", !.cont = "branches"]
  ELSE
  IF Len(r.repository) < 2
  THEN HandlerCatch(r, <<"Invalid repository format \"">> \o FullName(r.repository)
                         \o <<"\". Expected \"owner/repo\"">>)
  ELSE [Leave(r) EXCEPT !.pc = "gv_getTokens", !.cont = "get"]

\* messageHandlers.PUSH_PROJECT, pushSpikeProject up to its first await, for
\* the request r, which holds the members of message.data that the handler
\* destructures
PushProject(r) ==
  IF revision = "app"
  THEN [r EXCEPT !.pc = "gv_getTokens", !.cont = "repos"]
  ELSE AfterValidate(r)

\* a PUSH_PROJECT message arrives
StartPushProject(p) ==
  /\ FirstIdle(p)
  /\ started < MaxOps
  /\ started' = started + 1
  /\ \E repository \in Repositories, name \in ProjectNames :
       Set(p, PushProject([PushRequest(PushData(name, <<80, 75>>, repository,
                                                "main", Some(<<"Fix arm">>)))
                             EXCEPT !.id = started + 1]))
  /\ UNCHANGED <<revision, creds, tokens, tokenBy, authState, installation, now>>
  /\ UNCHANGED <<captureVars, pushVars, syncVars>>

\* getInstallationRepositories: the stored installation is read
ReposGetInstallation(p) ==
  /\ proc[p].pc = "repos_getInstallation"
  /\ IF installation = Null
     THEN Set(p, HandlerCatch(proc[p], <<"SpikePrimeGit app not installed. ">>))
     ELSE Set(p, [proc[p] EXCEPT !.pc = "repos_fetch"])
  /\ UNCHANGED <<revision, creds, tokens, tokenBy, authState, installation,
                 now, started>>
  /\ UNCHANGED <<captureVars, pushVars, syncVars>>

\* getInstallationRepositories: the listing is answered, and
\* validateRepositoryAccess looks for the repository in it
ReposResponse(p) ==
  /\ proc[p].pc = "repos_fetch"
  /\ \E a \in {ApiOk} \cup ApiFailures, list \in ReposLists :
       LET r == [proc[p] EXCEPT
                   !.limited = IF QuotaUsedUp(a) THEN Some(a) ELSE @]
       IN  IF ~ResponseOk(a)
           THEN Set(p, HandlerCatch(r,
                  IF a.status = 404
                  THEN <<"Installation not found. Please reinstall the SpikePrimeGit app at ">>
                  ELSE <<"Failed to get installation repositories: ",
                         ToString(a.status)>>))
           ELSE IF r.repository \notin list
                THEN Set(p, HandlerCatch(r,
                       <<"No access to repository \"">> \o FullName(r.repository)
                         \o <<"\". ">>))
                ELSE Set(p, AfterValidate(r))
  /\ UNCHANGED <<revision, creds, tokens, tokenBy, authState, installation,
                 now, started>>
  /\ UNCHANGED <<captureVars, pushVars, syncVars>>

\* getFileIfExists: githubRequest's GET is answered; its catch block decides
\* between "no such file" and an error; pushFile then asks for a token
GetResponse(p) ==
  /\ proc[p].pc = "get_fetch"
  /\ \E a \in ContentsAnswers(remote) :
       LET e == GithubRequestError(a, "GET",
                  ContentsEndpoint(proc[p]) \o <<"?", "ref=", "main">>)
           r == [Leave(proc[p]) EXCEPT
                   !.lookedUp = Some(remote),
                   !.limited = IF QuotaUsedUp(a) THEN Some(a) ELSE @]
       IN  IF e = Null
           THEN Set(p, [r EXCEPT !.existing = remote,
                                 !.putBody = Some(PutBody(r, remote, now)),
                                 !.pc = "gv_getTokens", !.cont = "put"])
           ELSE IF LooksNotFound(Val(e))
                THEN Set(p, [r EXCEPT !.existing = Null,
                                      !.putBody = Some(PutBody(r, Null, now)),
                                      !.pc = "gv_getTokens", !.cont = "put"])
                ELSE Set(p, HandlerCatch(r, Val(e)))
  /\ UNCHANGED <<revision, creds, tokens, tokenBy, authState, installation,
                 now, started>>
  /\ UNCHANGED <<captureVars, pushVars, syncVars>>

\* pushFile: githubRequest's PUT, which carries existingFile?.sha, is answered
PutResponse(p) ==
  /\ proc[p].pc = "put_fetch"
  /\ \E a \in PutAnswers(remote, proc[p].existing) :
       LET e == GithubRequestError(a, "PUT", ContentsEndpoint(proc[p]))
           r == [Leave(proc[p]) EXCEPT
                   !.limited = IF QuotaUsedUp(a) THEN Some(a) ELSE @]
       IN  IF e # Null
           THEN /\ Set(p, HandlerCatch([r EXCEPT !.failed = TRUE], Val(e)))
                /\ UNCHANGED remote
           ELSE /\ Set(p, [r EXCEPT !.pc = "history_get"])
                /\ remote' = Some("sha2")
  /\ UNCHANGED <<revision, creds, tokens, tokenBy, authState, installation,
                 now, started, syncHistory>>
  /\ UNCHANGED <<captureVars, syncVars>>

\* the record pushSpikeProject passes to storeSyncHistory
SyncRecord(r, time) ==
  [timestamp |-> time,
   projectName |-> r.projectName,
   repository |-> FullName(r.repository),
   filePath |-> FilePath(r.projectName),
   success |-> TRUE]

\* pushSpikeProject builds the record with Date.now() and calls
\* storeSyncHistory: chrome.storage.local.get('sync_history')
HistoryGet(p) ==
  /\ proc[p].pc = "history_get"
  /\ Set(p, [proc[p] EXCEPT !.pc = "history_set", !.history = syncHistory,
                            !.syncRecord = Some(SyncRecord(proc[p], now))])
  /\ UNCHANGED <<revision, creds, tokens, tokenBy, authState, installation,
                 now, started>>
  /\ UNCHANGED <<captureVars, pushVars, syncVars>>

\* history.unshift(syncRecord); history.splice(50)
Unshift(history, rec) ==
  LET h == <<rec>> \o history
  IN  IF Len(h) > HistoryCap THEN SubSeq(h, 1, HistoryCap) ELSE h

\* storeSyncHistory: chrome.storage.local.set({sync_history}); pushSpikeProject
\* returns and the handler answers
HistorySet(p) ==
  /\ proc[p].pc = "history_set"
  /\ syncHistory' = Unshift(proc[p].history, Val(proc[p].syncRecord))
  /\ Set(p, [proc[p] EXCEPT
               !.pc = "done",
               !.history = << >>,
               !.syncRecord = Null,
               !.resp = Some(Pushed(IF proc[p].existing # Null
                                    THEN "update" ELSE "add"))])
  /\ UNCHANGED <<revision, creds, tokens, tokenBy, authState, installation,
                 now, started, remote>>
  /\ UNCHANGED <<captureVars, syncVars>>

(***************************************************************************)
(* The other message handlers of the service worker.                       *)
(***************************************************************************)
\* getSyncHistory(limit = 10), GET_SYNC_HISTORY: async ({ limit = 10 })
DefaultLimit == 10

\* the settings object GET_SETTINGS falls back to and onInstalled stores
DefaultSettings ==
  [selectedRepo |-> Null, selectedBranch |-> Null, autoSync |-> FALSE]

\* the settings the popup saves once a repository and a branch are chosen
ChosenSettings(auto) ==
  [selectedRepo |-> Some(<<"octo", "robots">>), selectedBranch |-> Some("main"),
   autoSync |-> auto]

\* the settings objects a SAVE_SETTINGS message can carry
SettingsChoices == {DefaultSettings} \cup {ChosenSettings(a) : a \in BOOLEAN}

\* the limits a GET_SYNC_HISTORY message can carry: none, or 1
Limits == {Null, Some(1)}

\* history.slice(0, limit)
Slice(history, limit) ==
  IF Len(history) > limit THEN SubSeq(history, 1, limit) ELSE history

\* the first n handler slots, n requests at most: a message of the popup
\* or the injected panel is dispatched to its handler
Dispatch(p, r) ==
  /\ FirstIdle(p)
  /\ started < MaxOps
  /\ started' = started + 1
  /\ Set(p, [r EXCEPT !.id = started + 1])

\* a handler's try block returns its success object
Return(r, response) ==
  [Leave(r) EXCEPT !.pc = "done", !.arg = Null, !.resp = Some(response)]

\* messageHandlers.DISCONNECT is called
StartDisconnect(p) ==
  /\ Dispatch(p, [IdleProc EXCEPT !.op = "DISCONNECT", !.pc = "disc_clearAuth"])
  /\ UNCHANGED <<revision, creds, tokens, tokenBy, authState, installation, now>>
  /\ UNCHANGED <<captureVars, pushVars, syncVars>>

\* DISCONNECT: await auth.clearAuth()
DisconnectClearAuth(p) ==
  /\ proc[p].pc = "disc_clearAuth"
  /\ ClearAuth
  /\ tokenBy' = Null
  /\ Set(p, [proc[p] EXCEPT !.pc = "disc_removeSettings"])
  /\ UNCHANGED <<revision, creds, now, started>>
  /\ UNCHANGED <<captureVars, pushVars>>
  /\ UNCHANGED <<settings, csCapturedProject, sync, events, quota, button>>

\* DISCONNECT: await chrome.storage.local.remove('user_settings'); return
DisconnectRemoveSettings(p) ==
  /\ proc[p].pc = "disc_removeSettings"
  /\ settings' = Null
  /\ Set(p, Return(proc[p], Success))
  /\ UNCHANGED <<revision, creds, tokens, tokenBy, authState, installation,
                 now, started>>
  /\ UNCHANGED <<captureVars, pushVars>>
  /\ UNCHANGED <<csCapturedProject, sync, events, quota, button>>

\* messageHandlers.GET_SETTINGS for the request r
GetSettings(r) == [r EXCEPT !.pc = "settings_get"]

\* a GET_SETTINGS message arrives
StartGetSettings(p) ==
  /\ Dispatch(p, GetSettings([IdleProc EXCEPT !.op = "GET_SETTINGS"]))
  /\ UNCHANGED <<revision, creds, tokens, tokenBy, authState, installation, now>>
  /\ UNCHANGED <<captureVars, pushVars, syncVars>>

\* GET_SETTINGS: chrome.storage.local.get('user_settings') and the return of
\* result.user_settings || the default object
SettingsGet(p) ==
  /\ proc[p].pc = "settings_get"
  /\ Set(p, Return(proc[p], SuccessWith(IF settings = Null
                                         THEN DefaultSettings
                                         ELSE Val(settings))))
  /\ UNCHANGED <<revision, creds, tokens, tokenBy, authState, installation,
                 now, started>>
  /\ UNCHANGED <<captureVars, pushVars, syncVars>>

\* a SAVE_SETTINGS message arrives
StartSaveSettings(p) ==
  /\ \E s \in SettingsChoices :
       Dispatch(p, [IdleProc EXCEPT !.op = "SAVE_SETTINGS",
                                    !.pc = "settings_set", !.arg = Some(s)])
  /\ UNCHANGED <<revision, creds, tokens, tokenBy, authState, installation, now>>
  /\ UNCHANGED <<captureVars, pushVars, syncVars>>

\* SAVE_SETTINGS: chrome.storage.local.set({ user_settings: settings })
SettingsSet(p) ==
  /\ proc[p].pc = "settings_set"
  /\ settings' = proc[p].arg
  /\ Set(p, Return(proc[p], Success))
  /\ UNCHANGED <<revision, creds, tokens, tokenBy, authState, installation,
                 now, started>>
  /\ UNCHANGED <<captureVars, pushVars>>
  /\ UNCHANGED <<csCapturedProject, sync, events, quota, button>>

\* a GET_SYNC_HISTORY message arrives; limit is the member it carries
StartGetSyncHistory(p) ==
  /\ \E limit \in Limits :
       Dispatch(p, [IdleProc EXCEPT
                      !.op = "GET_SYNC_HISTORY", !.pc = "history_read",
                      !.arg = Some(IF limit = Null THEN DefaultLimit
                                                   ELSE Val(limit))])
  /\ UNCHANGED <<revision, creds, tokens, tokenBy, authState, installation, now>>
  /\ UNCHANGED <<captureVars, pushVars, syncVars>>

\* getSyncHistory: chrome.storage.local.get('sync_history') and the slice
SyncHistoryRead(p) ==
  /\ proc[p].pc = "history_read"
  /\ Set(p, Return(proc[p], SuccessWith(Slice(syncHistory, Val(proc[p].arg)))))
  /\ UNCHANGED <<revision, creds, tokens, tokenBy, authState, installation,
                 now, started>>
  /\ UNCHANGED <<captureVars, pushVars, syncVars>>

\* messageHandlers.GET_REDIRECT_URI: getRedirectURI() is synchronous
StartGetRedirectUri(p) ==
  /\ Dispatch(p, Return([IdleProc EXCEPT !.op = "GET_REDIRECT_URI"],
                        SuccessWith(<<"https://", "extension-id",
                                      ".chromiumapp.org/">>)))
  /\ UNCHANGED <<revision, creds, tokens, tokenBy, authState, installation, now>>
  /\ UNCHANGED <<captureVars, pushVars, syncVars>>

\* a GET_CLIENT_ID message arrives
StartGetClientId(p) ==
  /\ Dispatch(p, [IdleProc EXCEPT !.op = "GET_CLIENT_ID", !.pc = "clientId_get"])
  /\ UNCHANGED <<revision, creds, tokens, tokenBy, authState, installation, now>>
  /\ UNCHANGED <<captureVars, pushVars, syncVars>>

\* GET_CLIENT_ID: await auth.getClientId()
ClientIdGet(p) ==
  /\ proc[p].pc = "clientId_get"
  /\ Set(p, Return(proc[p], SuccessWith(GetClientId)))
  /\ UNCHANGED <<revision, creds, tokens, tokenBy, authState, installation,
                 now, started>>
  /\ UNCHANGED <<captureVars, pushVars, syncVars>>

\* a SET_CREDENTIALS message arrives with the id and secret of the setup
\* screen
StartSetCredentials(p) ==
  /\ \E cfg \in CredConfigs \ {NoCreds} :
       Dispatch(p, [IdleProc EXCEPT !.op = "SET_CREDENTIALS",
                                    !.pc = "creds_set", !.arg = Some(cfg)])
  /\ UNCHANGED <<revision, creds, tokens, tokenBy, authState, installation, now>>
  /\ UNCHANGED <<captureVars, pushVars, syncVars>>

\* setCredentials: chrome.storage.local.set of the id and the secret
CredentialsSet(p) ==
  /\ proc[p].pc = "creds_set"
  /\ creds' = Val(proc[p].arg)
  /\ Set(p, Return(proc[p], Success))
  /\ UNCHANGED <<revision, tokens, tokenBy, authState, installation, now,
                 started>>
  /\ UNCHANGED <<captureVars, pushVars, syncVars>>

\* the listener finds no handler for message.type and answers at once
UnknownMessage(p) ==
  /\ Dispatch(p, Return([IdleProc EXCEPT !.op = "UNKNOWN"],
                        Failure(<<"Unknown message type">>)))
  /\ UNCHANGED <<revision, creds, tokens, tokenBy, authState, installation, now>>
  /\ UNCHANGED <<captureVars, pushVars, syncVars>>

(***************************************************************************)
(* GET_REPOS and GET_BRANCHES.                                             *)
(***************************************************************************)
\* GET_REPOS falls back to api.listUserRepos(), which asks for a token
ListUserRepos(r) == [Leave(r) EXCEPT !.pc = "gv_getTokens", !.cont = "list"]

\* a GET_REPOS message arrives: auth.getAccessibleRepositories() asks for a
\* token
StartGetRepos(p) ==
  /\ Dispatch(p, [IdleProc EXCEPT !.op = "GET_REPOS", !.pc = "gv_getTokens",
                                  !.cont = "accessible"])
  /\ UNCHANGED <<revision, creds, tokens, tokenBy, authState, installation, now>>
  /\ UNCHANGED <<captureVars, pushVars, syncVars>>

\* GitHub App, getAccessibleRepositories: getInstallationRepositories reads
\* the stored installation; its error is caught and [] returned
AccessibleGetInstallation(p) ==
  /\ proc[p].pc = "acc_getInstallation"
  /\ IF installation = Null
     THEN Set(p, ListUserRepos(proc[p]))
     ELSE Set(p, [proc[p] EXCEPT !.pc = "acc_fetch"])
  /\ UNCHANGED <<revision, creds, tokens, tokenBy, authState, installation,
                 now, started>>
  /\ UNCHANGED <<captureVars, pushVars, syncVars>>

\* getAccessibleRepositories: the listing is answered; a listing that is
\* not empty is GET_REPOS's answer
AccessibleResponse(p) ==
  /\ proc[p].pc = "acc_fetch"
  /\ \E a \in {ApiOk} \cup ApiFailures, list \in ReposLists :
       LET r == [proc[p] EXCEPT
                   !.limited = IF QuotaUsedUp(a) THEN Some(a) ELSE @]
       IN  IF ResponseOk(a) /\ list # {}
           THEN Set(p, Return(r, SuccessWith([repos |-> list,
                                              source |-> "github_app"])))
           ELSE Set(p, ListUserRepos(r))
  /\ UNCHANGED <<revision, creds, tokens, tokenBy, authState, installation,
                 now, started>>
  /\ UNCHANGED <<captureVars, pushVars, syncVars>>

\* GitHub App, listUserRepos: getInstallationRepositories reads the stored
\* installation
ListGetInstallation(p) ==
  /\ proc[p].pc = "list_getInstallation"
  /\ IF installation = Null
     THEN Set(p, HandlerCatch(proc[p],
                   <<"No installation found. Please authenticate first.">>))
     ELSE Set(p, [proc[p] EXCEPT !.pc = "list_fetch"])
  /\ UNCHANGED <<revision, creds, tokens, tokenBy, authState, installation,
                 now, started>>
  /\ UNCHANGED <<captureVars, pushVars, syncVars>>

\* listUserRepos: the installation's listing (GitHub App) or /user/repos
\* (OAuth App, through githubRequest) is answered
ListResponse(p) ==
  /\ proc[p].pc = "list_fetch"
  /\ \E a \in {ApiOk} \cup ApiFailures, list \in ReposLists :
       LET r == [proc[p] EXCEPT
                   !.limited = IF QuotaUsedUp(a) THEN Some(a) ELSE @]
           e == IF revision = "app"
                THEN IF ResponseOk(a) THEN Null
                     ELSE IF a.status = 404
                     THEN Some(<<"Installation not found. Please reinstall the SpikePrimeGit app at ">>)
                     ELSE Some(<<"Failed to get installation repositories: ",
                                 ToString(a.status)>>)
                ELSE GithubRequestError(a, "GET", <<"/user/repos?">>)
       IN  IF e # Null
           THEN Set(p, HandlerCatch(r, Val(e)))
           ELSE Set(p, Return(r, SuccessWith([repos |-> list,
                                              source |-> "oauth_app"])))
  /\ UNCHANGED <<revision, creds, tokens, tokenBy, authState, installation,
                 now, started>>
  /\ UNCHANGED <<captureVars, pushVars, syncVars>>

\* the repository members a GET_BRANCHES message can carry: none, or one of
\* the repositories
BranchQueries == {Null} \cup {Some(r) : r \in Repositories}

\* a GET_BRANCHES message arrives: repository.split('/') and getBranches,
\* which validates the access (GitHub App) and asks for a token
StartGetBranches(p) ==
  /\ \E q \in BranchQueries :
       LET r == [IdleProc EXCEPT !.op = "GET_BRANCHES"]
       IN  IF q = Null
           THEN Dispatch(p, HandlerCatch(r,
                  <<"Cannot read properties of undefined (reading 'split')">>))
           ELSE IF revision = "app"
                THEN Dispatch(p, [r EXCEPT !.repository = Val(q),
                                           !.pc = "gv_getTokens",
                                           !.cont = "repos"])
                ELSE Dispatch(p, AfterValidate([r EXCEPT !.repository = Val(q)]))
  /\ UNCHANGED <<revision, creds, tokens, tokenBy, authState, installation, now>>
  /\ UNCHANGED <<captureVars, pushVars, syncVars>>

\* getBranches: githubRequest's GET of the branches is answered
BranchesResponse(p) ==
  /\ proc[p].pc = "branches_fetch"
  /\ \E a \in {ApiOk} \cup ApiFailures :
       LET e == GithubRequestError(a, "GET",
                  <<"/repos/">> \o FullName(proc[p].repository)
                    \o <<"/branches">>)
           r == [proc[p] EXCEPT
                   !.limited = IF QuotaUsedUp(a) THEN Some(a) ELSE @]
       IN  IF e # Null
           THEN Set(p, HandlerCatch(r, Val(e)))
           ELSE Set(p, Return(r, SuccessWith(<<"main">>)))
  /\ UNCHANGED <<revision, creds, tokens, tokenBy, authState, installation,
                 now, started>>
  /\ UNCHANGED <<captureVars, pushVars, syncVars>>

(***************************************************************************)
(* The rest of the service worker's life.                                  *)
(***************************************************************************)
\* sendResponse has delivered the response: the slot is free again
Respond(p) ==
  /\ proc[p].pc = "done"
  /\ Set(p, IdleProc)
  /\ UNCHANGED <<revision, creds, tokens, tokenBy, authState, installation,
                 now, started>>
  /\ UNCHANGED <<captureVars, pushVars, syncVars>>

\* time passes
Tick ==
  /\ now < MaxTime * TickMs
  /\ now' = now + TickMs
  /\ UNCHANGED <<revision, creds, tokens, tokenBy, authState, installation,
                 started, proc>>
  /\ UNCHANGED <<captureVars, pushVars, syncVars>>

(***************************************************************************)
(* Part 3: the content script (content-script.js).                         *)
(*                                                                         *)
(* A capture listener or a handleSync call in flight is a flow sync[c].    *)
(* chrome.runtime.sendMessage hands the message to the service worker,     *)
(* where handler slot c runs it; the flow resumes when the handler is      *)
(* done.                                                                   *)
(***************************************************************************)
\* capture events and user actions of a page on which captures follow
\* each other
MaxEvents == 2
\* flows the content script of such a page can have in flight
NumFlows == 2

Flows == 1..NumFlows

\* the details a 'spikeprimegit:project-captured' event can carry
CaptureDetails ==
  { [name |-> "Robot", content |-> <<80, 75, 1>>],
    [name |-> "My Bot", content |-> <<80, 75, 2>>] }

\* what reaches handleSync as commitMessage on a user action: the trimmed,
\* non-empty text of the commit-message field (handleSyncClick), or nothing
\* (SYNC_NOW from the popup)
UserMessages == {Some(<<"Fix arm">>), Null}

\* a flow slot with no flow in it; the fields keep what the last flow did
IdleSync ==
  [ pc |-> "idle",          \* position
    isAutoSync |-> FALSE,   \* handleSync: isAutoSync
    commitMessage |-> Null, \* handleSync: commitMessage
    capture |-> Null,       \* the event detail the listener was called with
    refreshable |-> FALSE,  \* handleSync began with a token that was due
                            \* for refresh and had a refresh token
    pushes |-> 0,           \* PUSH_PROJECT messages this flow has sent
    pushData |-> Null,      \* handleSync: pushData
    notified |-> Null,      \* the project name in the success notification
    answer |-> Null,        \* the response the SYNC_NOW listener has sent
    outcome |-> "none" ]    \* how the flow ended

SetSync(c, s) == sync' = [sync EXCEPT ![c] = s]

\* chrome.runtime.sendMessage: handler slot c starts on the request r
SendMessage(c, r) ==
  /\ proc[c].pc = "idle"
  /\ started' = started + 1
  /\ proc' = [proc EXCEPT ![c] = [r EXCEPT !.id = started + 1]]

\* the promise of sendMessage resolves with the handler's response
Received(c) == proc[c].pc = "done"
Response(c) == Val(proc[c].resp)
Resume(c) == proc' = [proc EXCEPT ![c] = IdleProc]

\* the handleSync call of the flow was made by the SYNC_NOW listener:
\* handleSync(), no commit message and not an auto-sync
FromPopup(s) == ~s.isAutoSync /\ s.capture = Null /\ s.commitMessage = Null

\* the flow is over: handleSync returns; for SYNC_NOW the listener's
\* .then(() => sendResponse({ success: true })) runs
End(s, outcome) ==
  [s EXCEPT !.pc = "idle", !.outcome = outcome,
            !.answer = IF s.pc # "connecting" /\ FromPopup(s)
                       THEN Some([success |-> TRUE, error |-> Null])
                       ELSE Null]

\* the sync button of a page that has just been loaded
DefaultButton == [state |-> "default", timers |-> 0]

\* setButtonState(state): 'success' and 'error' arm a timer that sets
\* 'default' after 3 seconds
SetButtonState(b, state) ==
  [state |-> state,
   timers |-> IF state \in {"success", "error"} THEN b.timers + 1
              ELSE b.timers]

\* a timer armed by setButtonState fires: setButtonState('default')
ButtonTimer ==
  /\ button.timers > 0
  /\ button' = [state |-> "default", timers |-> button.timers - 1]
  /\ UNCHANGED <<captureVars, authVars, pushVars>>
  /\ UNCHANGED <<settings, csCapturedProject, sync, events, quota>>

\* a stored token record that is due for refresh and can be refreshed
Refreshable ==
  /\ tokens # Null
  /\ Val(tokens).refreshToken # Null
  /\ NeedsRefresh(Val(tokens), now)

\* handleSync(commitMessage, isAutoSync) up to the CHECK_CONNECTION message
HandleSync(c, s, commitMessage, isAutoSync) ==
  /\ SetSync(c, [s EXCEPT !.pc = "sync_connection",
                          !.isAutoSync = isAutoSync,
                          !.commitMessage = commitMessage,
                          !.refreshable = Refreshable,
                          !.pushes = 0,
                          !.pushData = Null,
                          !.notified = Null,
                          !.answer = Null,
                          !.outcome = "none"])
  /\ SendMessage(c, CheckConnection([IdleProc EXCEPT !.op = "CHECK_CONNECTION"]))

\* the 'spikeprimegit:project-captured' listener: capturedProject is set
\* and GET_SETTINGS is sent
ProjectCaptured(c) ==
  /\ sync[c].pc = "idle"
  /\ \A d \in DOMAIN sync : d < c => sync[d].pc # "idle"
  /\ events < quota
  /\ events' = events + 1
  /\ \E detail \in CaptureDetails :
       /\ csCapturedProject' = Some(detail)
       /\ SetSync(c, [IdleSync EXCEPT !.pc = "listener_settings",
                                      !.capture = Some(detail)])
  /\ SendMessage(c, GetSettings([IdleProc EXCEPT !.op = "GET_SETTINGS"]))
  /\ UNCHANGED <<revision, creds, tokens, tokenBy, authState, installation, now>>
  /\ UNCHANGED <<captureVars, pushVars>>
  /\ UNCHANGED <<settings, quota, button>>

\* the listener after GET_SETTINGS: with auto-sync on, setTimeout of
\* handleSync
ListenerSettings(c) ==
  /\ sync[c].pc = "listener_settings"
  /\ Received(c)
  /\ Resume(c)
  /\ IF Response(c).success = Some(TRUE) /\ Val(Response(c).data).autoSync
     THEN SetSync(c, [sync[c] EXCEPT !.pc = "timer"])
     ELSE SetSync(c, End(sync[c], "ready"))
  /\ UNCHANGED <<revision, creds, tokens, tokenBy, authState, installation,
                 now, started>>
  /\ UNCHANGED <<captureVars, pushVars>>
  /\ UNCHANGED <<settings, csCapturedProject, events, quota, button>>

\* the timer of the listener fires:
\* handleSync(`Auto-synced ${event.detail.projectName}`, true)
TimerFires(c) ==
  /\ sync[c].pc = "timer"
  /\ HandleSync(c, sync[c],
                Some(<<"Auto-synced ", Val(sync[c].capture).name>>), TRUE)
  /\ UNCHANGED <<revision, creds, tokens, tokenBy, authState, installation, now>>
  /\ UNCHANGED <<captureVars, pushVars>>
  /\ UNCHANGED <<settings, csCapturedProject, events, quota, button>>

\* the user clicks the sync button, which is not disabled, with a commit
\* message in the field: handleSyncClick sets 'syncing' and awaits
\* handleSync(commitMessage)
SyncClick(c) ==
  /\ sync[c].pc = "idle"
  /\ \A d \in DOMAIN sync : d < c => sync[d].pc # "idle"
  /\ events < quota
  /\ button.state # "syncing"
  /\ events' = events + 1
  /\ button' = SetButtonState(button, "syncing")
  /\ \E m \in UserMessages \ {Null} : HandleSync(c, IdleSync, m, FALSE)
  /\ UNCHANGED <<revision, creds, tokens, tokenBy, authState, installation, now>>
  /\ UNCHANGED <<captureVars, pushVars>>
  /\ UNCHANGED <<settings, csCapturedProject, quota>>

\* the popup sends SYNC_NOW: the listener calls handleSync()
SyncNow(c) ==
  /\ sync[c].pc = "idle"
  /\ \A d \in DOMAIN sync : d < c => sync[d].pc # "idle"
  /\ events < quota
  /\ events' = events + 1
  /\ HandleSync(c, IdleSync, Null, FALSE)
  /\ UNCHANGED <<revision, creds, tokens, tokenBy, authState, installation, now>>
  /\ UNCHANGED <<captureVars, pushVars>>
  /\ UNCHANGED <<settings, csCapturedProject, quota, button>>

\* handleSync after CHECK_CONNECTION: the notification to connect first, or
\* the GET_SETTINGS message
SyncConnection(c) ==
  /\ sync[c].pc = "sync_connection"
  /\ Received(c)
  /\ IF Response(c).connected # Some(TRUE)
     THEN /\ SetSync(c, End(sync[c], "connect first"))
          /\ Resume(c)
          /\ UNCHANGED started
     ELSE /\ SetSync(c, [sync[c] EXCEPT !.pc = "sync_settings"])
          /\ started' = started + 1
          /\ proc' = [proc EXCEPT ![c] =
                        GetSettings([IdleProc EXCEPT !.op = "GET_SETTINGS",
                                                     !.id = started + 1])]
  /\ UNCHANGED <<revision, creds, tokens, tokenBy, authState, installation, now>>
  /\ UNCHANGED <<captureVars, pushVars>>
  /\ UNCHANGED <<settings, csCapturedProject, events, quota, button>>

\* commitMessage || `Synced project: ${capturedProject.name}`
MessageOrDefault(commitMessage, name) ==
  IF Truthy(commitMessage) THEN commitMessage
  ELSE Some(<<"Synced project: ", name>>)

\* `\u2705 Synced "${capturedProject.name}" to GitHub`, built after the
\* push from what capturedProject holds then; reading the name of null
\* raises a TypeError, which the catch block shows as the sync's error
Notify(s, held) ==
  IF held = Null
  THEN End(s, "error")
  ELSE End([s EXCEPT !.notified = Some(Val(held).name)], "synced")

\* handleSync resends the project after a push that failed
AfterPush_Retry(s, m, held) ==
  IF m.success = Some(TRUE)
  THEN Notify(s, held)
  ELSE [s EXCEPT !.pc = "sync_settings"]

\* handleSync after PUSH_PROJECT: the status is shown, or the error is
\* thrown to the catch block, which shows it
AfterPush(s, m, held) ==
  IF m.success = Some(TRUE)
  THEN Notify(s, held)
  ELSE End(s, "error")

\* handleSync after GET_SETTINGS: the tests of the settings, of
\* capturedProject and of the commit message, and the PUSH_PROJECT message
SyncSettings(c) ==
  /\ sync[c].pc = "sync_settings"
  /\ Received(c)
  /\ LET m == Response(c)
         s == sync[c]
         stop(outcome) == /\ SetSync(c, End(s, outcome))
                          /\ Resume(c)
                          /\ UNCHANGED started
                          /\ button' = IF outcome = "error"
                                       THEN SetButtonState(button, "error")
                                       ELSE button
     IN  IF m.success # Some(TRUE) THEN stop("error")
         ELSE IF Val(m.data).selectedRepo = Null
                   \/ Val(m.data).selectedBranch = Null
              THEN stop("select a repository")
         ELSE IF csCapturedProject = Null THEN stop("no project")
         ELSE IF ~s.isAutoSync /\ ~Truthy(s.commitMessage)
              THEN stop("message required")
         ELSE LET data == PushData(Val(csCapturedProject).name,
                                   Val(csCapturedProject).content,
                                   Val(Val(m.data).selectedRepo),
                                   Val(Val(m.data).selectedBranch),
                                   MessageOrDefault(s.commitMessage,
                                     Val(csCapturedProject).name))
              IN  /\ SetSync(c, [s EXCEPT !.pc = "sync_push",
                                          !.pushes = @ + 1,
                                          !.pushData = Some(data)])
                  /\ button' = SetButtonState(button, "syncing")
                  /\ started' = started + 1
                  /\ proc' = [proc EXCEPT ![c] =
                                PushProject([PushRequest(data)
                                               EXCEPT !.id = started + 1])]
  /\ UNCHANGED <<revision, creds, tokens, tokenBy, authState, installation, now>>
  /\ UNCHANGED <<captureVars, pushVars>>
  /\ UNCHANGED <<settings, csCapturedProject, events, quota>>

\* handleSync after PUSH_PROJECT, clearing capturedProject after every
\* sync that succeeded
SyncPushed_ClearsAlways(c) ==
  /\ sync[c].pc = "sync_push"
  /\ Received(c)
  /\ SetSync(c, AfterPush(sync[c], Response(c), csCapturedProject))
  /\ IF AfterPush(sync[c], Response(c), csCapturedProject).pc = "idle"
     THEN Resume(c)
     ELSE proc' = [proc EXCEPT ![c] =
                     GetSettings([IdleProc EXCEPT !.op = "GET_SETTINGS"])]
  /\ csCapturedProject' =
       IF Response(c).success = Some(TRUE)
       THEN Null ELSE csCapturedProject
  /\ UNCHANGED <<revision, creds, tokens, tokenBy, authState, installation,
                 now, started>>
  /\ UNCHANGED <<captureVars, pushVars>>
  /\ button' = IF AfterPush(sync[c], Response(c), csCapturedProject).pc = "idle"
               THEN SetButtonState(button,
                      IF AfterPush(sync[c], Response(c),
                                   csCapturedProject).outcome = "synced"
                      THEN "success" ELSE "error")
               ELSE button
  /\ UNCHANGED <<settings, events, quota>>

\* handleSync after PUSH_PROJECT; a manual sync that succeeded clears
\* capturedProject
SyncPushed(c) ==
  /\ sync[c].pc = "sync_push"
  /\ Received(c)
  /\ SetSync(c, AfterPush(sync[c], Response(c), csCapturedProject))
  /\ IF AfterPush(sync[c], Response(c), csCapturedProject).pc = "idle"
     THEN Resume(c)
     ELSE proc' = [proc EXCEPT ![c] =
                     GetSettings([IdleProc EXCEPT !.op = "GET_SETTINGS"])]
  /\ csCapturedProject' =
       IF Response(c).success = Some(TRUE) /\ ~sync[c].isAutoSync
       THEN Null ELSE csCapturedProject
  /\ UNCHANGED <<revision, creds, tokens, tokenBy, authState, installation,
                 now, started>>
  /\ UNCHANGED <<captureVars, pushVars>>
  /\ button' = IF AfterPush(sync[c], Response(c), csCapturedProject).pc = "idle"
               THEN SetButtonState(button,
                      IF AfterPush(sync[c], Response(c),
                                   csCapturedProject).outcome = "synced"
                      THEN "success" ELSE "error")
               ELSE button
  /\ UNCHANGED <<settings, events, quota>>

\* the user clicks Connect in the popup: connectToGitHub sends an
\* AUTHENTICATE message, which takes a handler slot no flow is using, and
\* waits for the response; the popup's wait is kept in flow slot p
ConnectClick(p) ==
  /\ proc[p].pc = "idle"
  /\ sync[p].pc = "idle"
  /\ events < quota
  /\ events' = events + 1
  /\ started' = started + 1
  /\ Set(p, Authenticate([IdleProc EXCEPT !.op = "AUTHENTICATE",
                                          !.id = started + 1]))
  /\ SetSync(p, [IdleSync EXCEPT !.pc = "connecting"])
  /\ UNCHANGED <<revision, creds, tokens, tokenBy, authState, installation, now>>
  /\ UNCHANGED <<captureVars, pushVars>>
  /\ UNCHANGED <<settings, csCapturedProject, quota, button>>

\* the timer of sendMessage fires before the response has come: the
\* promise rejects, and connectToGitHub shows 'Failed to connect: Message
\* AUTHENTICATE timed out after 5000ms'.  The handler is waiting for
\* launchWebAuthFlow, that is for the user, and goes on
ConnectTimesOut(p) ==
  /\ sync[p].pc = "connecting"
  /\ proc[p].op = "AUTHENTICATE"
  /\ proc[p].pc = "auth_launch"
  /\ SetSync(p, End(sync[p], "failed to connect"))
  /\ UNCHANGED <<captureVars, authVars, pushVars>>
  /\ UNCHANGED <<settings, csCapturedProject, events, quota, button>>

\* the response to the popup's AUTHENTICATE message arrives; a popup that
\* is still waiting shows the connected screen or the error
PopupReceives(p) ==
  /\ proc[p].op = "AUTHENTICATE"
  /\ proc[p].pc = "done"
  /\ Set(p, IdleProc)
  /\ IF sync[p].pc = "connecting"
     THEN SetSync(p, End(sync[p], IF Response(p).success = Some(TRUE)
                                  THEN "connected"
                                  ELSE "failed to connect"))
     ELSE UNCHANGED sync
  /\ UNCHANGED <<revision, creds, tokens, tokenBy, authState, installation,
                 now, started>>
  /\ UNCHANGED <<captureVars, pushVars>>
  /\ UNCHANGED <<settings, csCapturedProject, events, quota, button>>


\* the popup is opened: initialize() sends CHECK_CONNECTION to a handler
\* slot that is free
PopupInitialize(p) ==
  /\ proc[p].pc = "idle"
  /\ sync[p].pc = "idle"
  /\ events < quota
  /\ events' = events + 1
  /\ started' = started + 1
  /\ Set(p, CheckConnection([IdleProc EXCEPT !.op = "CHECK_CONNECTION",
                                             !.id = started + 1]))
  /\ UNCHANGED <<revision, creds, tokens, tokenBy, authState, installation, now>>
  /\ UNCHANGED <<captureVars, pushVars>>
  /\ UNCHANGED <<settings, csCapturedProject, sync, quota, button>>

\* the user clicks Disconnect in the popup and confirms: disconnect() sends
\* DISCONNECT
DisconnectClick(p) ==
  /\ proc[p].pc = "idle"
  /\ sync[p].pc = "idle"
  /\ events < quota
  /\ events' = events + 1
  /\ started' = started + 1
  /\ Set(p, [IdleProc EXCEPT !.op = "DISCONNECT", !.pc = "disc_clearAuth",
                             !.id = started + 1])
  /\ UNCHANGED <<revision, creds, tokens, tokenBy, authState, installation, now>>
  /\ UNCHANGED <<captureVars, pushVars>>
  /\ UNCHANGED <<settings, csCapturedProject, sync, quota, button>>

\* the popup receives the response to its CHECK_CONNECTION or DISCONNECT
\* message and shows the matching screen
PopupShows(p) ==
  /\ proc[p].op \in {"CHECK_CONNECTION", "DISCONNECT"}
  /\ Respond(p)
(***************************************************************************)
(* Initial states and specifications.                                      *)
(***************************************************************************)
\* storage right after installation, nothing stored but the credentials
\* the user set up
StorageInstalled(rev, cfg) ==
  /\ revision = rev
  /\ creds = cfg
  /\ tokens = Null
  /\ tokenBy = Null
  /\ authState = Null
  /\ installation = Null
  /\ now = 0
  /\ started = 0
  /\ syncHistory = << >>

\* a service worker with n handler slots, none in use
Handlers(n) == proc = [p \in 1..n |-> IdleProc]

\* the service worker right after installation
WorkerInstalled(rev, cfg) ==
  /\ StorageInstalled(rev, cfg)
  /\ Handlers(NumProcs)

\* the token record an earlier, successful AUTHENTICATE left in storage
EarlierSession ==
  StoredRecord([accessToken |-> Some("ghu_A"), refreshToken |-> Some("ghr_1"),
                expiresIn |-> 600, scope |-> Some("repo")], 0)

\* storage with the session of an earlier AUTHENTICATE in it
StorageRestarted(rev, cfg) ==
  /\ revision = rev
  /\ creds = cfg
  /\ tokens = Some(EarlierSession)
  /\ tokenBy = Some([id |-> 0, via |-> "exchange"])
  /\ authState = Null
  /\ installation = IF rev = "app" THEN Some([id |-> 1]) ELSE Null
  /\ now = 0
  /\ started = 0
  /\ syncHistory = << >>

\* the service worker started again with the session of an earlier
\* AUTHENTICATE in storage
WorkerRestarted(rev, cfg) ==
  /\ StorageRestarted(rev, cfg)
  /\ Handlers(NumProcs)

\* the page before the interceptor has seen anything
PageLoaded(pg) ==
  /\ capturedProject = Null
  /\ projectName = Null
  /\ dom = pg.dom
  /\ pathname = pg.pathname
  /\ pending = Null
  /\ ret = Null
  /\ lastEvent = Null
  /\ call = Null

BlankPage == [dom |-> << >>, pathname |-> <<"">>]

\* no page of the editor is open: no content script runs
NoContentScript ==
  /\ csCapturedProject = Null
  /\ sync = << >>
  /\ events = 0
  /\ quota = 0
  /\ button = DefaultButton

\* user_settings as onInstalled wrote it
SettingsInstalled == settings = Some(DefaultSettings)

\* the credentials with which authenticate() of a revision can succeed
CanAuthenticate(rev, cfg) ==
  IF rev = "oauth" THEN Truthy(cfg.secret) ELSE ~Truthy(cfg.id)

\* the files that can be at the push target
RemoteFiles == {Null, Some("sha1")}

InitAuth ==
  /\ PageLoaded(BlankPage)
  /\ NoContentScript
  /\ SettingsInstalled
  /\ remote = Null
  /\ \E rev \in Revisions, cfg \in CredConfigs :
       \/ WorkerInstalled(rev, cfg)
       \/ CanAuthenticate(rev, cfg) /\ WorkerRestarted(rev, cfg)

NextAuth ==
  \/ \E p \in Procs : StartAuthenticate(p)
  \/ \E p \in Procs : AuthSetState(p)
  \/ \E p \in Procs : AuthLaunchRejects(p)
  \/ \E p \in Procs : AuthLaunchResolves(p)
  \/ \E p \in Procs : AuthVerify(p)
  \/ \E p \in Procs : AuthExchangeResponse(p)
  \/ \E p \in Procs : AuthStoreTokens(p)
  \/ \E p \in Procs : AuthInstallationsResponse(p)
  \/ \E p \in Procs : AuthNoInstallation(p)
  \/ \E p \in Procs : AuthSetInstallation(p)
  \/ \E p \in Procs : AuthCatch(p)
  \/ \E p \in Procs : AuthRemoveState(p)
  \/ \E p \in Procs : StartCheckConnection(p)
  \/ \E p \in Procs : GvGetTokens(p)
  \/ \E p \in Procs : RfGetTokens(p)
  \/ \E p \in Procs : RfResponse(p)
  \/ \E p \in Procs : RfStore(p)
  \/ \E p \in Procs : GvClearAuth(p)
  \/ \E p \in Procs : UserResponse(p)
  \/ \E p \in Procs : Respond(p)
  \/ Tick

SpecAuth == InitAuth /\ [][NextAuth]_vars

InitPush ==
  /\ PageLoaded(BlankPage)
  /\ NoContentScript
  /\ SettingsInstalled
  /\ remote \in RemoteFiles
  /\ \E rev \in Revisions, cfg \in CredConfigs :
       CanAuthenticate(rev, cfg) /\ WorkerRestarted(rev, cfg)

NextPush ==
  \/ \E p \in Procs : StartPushProject(p)
  \/ \E p \in Procs : GvGetTokens(p)
  \/ \E p \in Procs : RfGetTokens(p)
  \/ \E p \in Procs : RfResponse(p)
  \/ \E p \in Procs : RfStore(p)
  \/ \E p \in Procs : GvClearAuth(p)
  \/ \E p \in Procs : ReposGetInstallation(p)
  \/ \E p \in Procs : ReposResponse(p)
  \/ \E p \in Procs : GetResponse(p)
  \/ \E p \in Procs : PutResponse(p)
  \/ \E p \in Procs : HistoryGet(p)
  \/ \E p \in Procs : HistorySet(p)
  \/ \E p \in Procs : Respond(p)
  \/ Tick

SpecPush == InitPush /\ [][NextPush]_vars


\* the service worker with every message type the popup, the injected panel
\* and the content script send, and one it has no handler for
InitWorker ==
  /\ PageLoaded(BlankPage)
  /\ NoContentScript
  /\ remote = Null
  /\ \E rev \in Revisions, cfg \in CredConfigs :
       \/ WorkerInstalled(rev, cfg) /\ SettingsInstalled
       \/ /\ CanAuthenticate(rev, cfg)
          /\ WorkerRestarted(rev, cfg)
          /\ settings = Some(ChosenSettings(FALSE))

NextWorker ==
  \/ \E p \in Procs : StartAuthenticate(p)
  \/ \E p \in Procs : AuthSetState(p)
  \/ \E p \in Procs : AuthLaunchRejects(p)
  \/ \E p \in Procs : AuthLaunchResolves(p)
  \/ \E p \in Procs : AuthVerify(p)
  \/ \E p \in Procs : AuthExchangeResponse(p)
  \/ \E p \in Procs : AuthStoreTokens(p)
  \/ \E p \in Procs : AuthInstallationsResponse(p)
  \/ \E p \in Procs : AuthNoInstallation(p)
  \/ \E p \in Procs : AuthSetInstallation(p)
  \/ \E p \in Procs : AuthCatch(p)
  \/ \E p \in Procs : AuthRemoveState(p)
  \/ \E p \in Procs : StartCheckConnection(p)
  \/ \E p \in Procs : GvGetTokens(p)
  \/ \E p \in Procs : RfGetTokens(p)
  \/ \E p \in Procs : RfResponse(p)
  \/ \E p \in Procs : RfStore(p)
  \/ \E p \in Procs : GvClearAuth(p)
  \/ \E p \in Procs : UserResponse(p)
  \/ \E p \in Procs : StartPushProject(p)
  \/ \E p \in Procs : ReposGetInstallation(p)
  \/ \E p \in Procs : ReposResponse(p)
  \/ \E p \in Procs : GetResponse(p)
  \/ \E p \in Procs : PutResponse(p)
  \/ \E p \in Procs : HistoryGet(p)
  \/ \E p \in Procs : HistorySet(p)
  \/ \E p \in Procs : Respond(p)
  \/ Tick
  \/ \E p \in Procs : StartDisconnect(p)
  \/ \E p \in Procs : DisconnectClearAuth(p)
  \/ \E p \in Procs : DisconnectRemoveSettings(p)
  \/ \E p \in Procs : StartGetSettings(p)
  \/ \E p \in Procs : SettingsGet(p)
  \/ \E p \in Procs : StartSaveSettings(p)
  \/ \E p \in Procs : SettingsSet(p)
  \/ \E p \in Procs : StartGetSyncHistory(p)
  \/ \E p \in Procs : SyncHistoryRead(p)
  \/ \E p \in Procs : StartGetRedirectUri(p)
  \/ \E p \in Procs : StartGetClientId(p)
  \/ \E p \in Procs : ClientIdGet(p)
  \/ \E p \in Procs : StartSetCredentials(p)
  \/ \E p \in Procs : CredentialsSet(p)
  \/ \E p \in Procs : UnknownMessage(p)
  \/ \E p \in Procs : StartGetRepos(p)
  \/ \E p \in Procs : AccessibleGetInstallation(p)
  \/ \E p \in Procs : AccessibleResponse(p)
  \/ \E p \in Procs : ListGetInstallation(p)
  \/ \E p \in Procs : ListResponse(p)
  \/ \E p \in Procs : StartGetBranches(p)
  \/ \E p \in Procs : BranchesResponse(p)

SpecWorker == InitWorker /\ [][NextWorker]_vars

\* the content script of a freshly loaded editor page, with n flow slots
\* and q capture events and user actions to come
ContentScriptLoaded(n, q) ==
  /\ sync = [c \in 1..n |-> IdleSync]
  /\ events = 0
  /\ quota = q
  /\ button = DefaultButton

\* the project an earlier capture event left in capturedProject, the
\* listener having found auto-sync off
EarlierCapture == [name |-> "Robot", content |-> <<80, 75, 0>>]

\* user_settings as the popup can have left it
SettingsStored == \E s \in SettingsChoices : settings = Some(s)

\* an editor page, and a service worker that holds an earlier session
InitSync ==
  /\ PageLoaded(BlankPage)
  /\ ContentScriptLoaded(NumProcs, MaxOps)
  /\ csCapturedProject \in {Null, Some(EarlierCapture)}
  /\ Handlers(NumProcs)
  /\ SettingsStored
  /\ remote \in RemoteFiles
  /\ \E rev \in Revisions, cfg \in CredConfigs :
       CanAuthenticate(rev, cfg) /\ StorageRestarted(rev, cfg)

NextSync ==
  \/ \E c \in Procs : ProjectCaptured(c)
  \/ \E c \in Procs : ListenerSettings(c)
  \/ \E c \in Procs : TimerFires(c)
  \/ \E c \in Procs : SyncClick(c)
  \/ \E c \in Procs : SyncNow(c)
  \/ \E c \in Procs : SyncConnection(c)
  \/ \E c \in Procs : SyncSettings(c)
  \/ \E c \in Procs : SyncPushed(c)
  \/ ButtonTimer
  \/ \E p \in Procs : ConnectClick(p)
  \/ \E p \in Procs : ConnectTimesOut(p)
  \/ \E p \in Procs : PopupReceives(p)
  \/ \E p \in Procs : AuthSetState(p)
  \/ \E p \in Procs : AuthLaunchRejects(p)
  \/ \E p \in Procs : AuthLaunchResolves(p)
  \/ \E p \in Procs : AuthVerify(p)
  \/ \E p \in Procs : AuthExchangeResponse(p)
  \/ \E p \in Procs : AuthStoreTokens(p)
  \/ \E p \in Procs : AuthInstallationsResponse(p)
  \/ \E p \in Procs : AuthNoInstallation(p)
  \/ \E p \in Procs : AuthSetInstallation(p)
  \/ \E p \in Procs : AuthCatch(p)
  \/ \E p \in Procs : AuthRemoveState(p)
  \/ \E p \in Procs : SettingsGet(p)
  \/ \E p \in Procs : GvGetTokens(p)
  \/ \E p \in Procs : RfGetTokens(p)
  \/ \E p \in Procs : RfResponse(p)
  \/ \E p \in Procs : RfStore(p)
  \/ \E p \in Procs : GvClearAuth(p)
  \/ \E p \in Procs : UserResponse(p)
  \/ \E p \in Procs : ReposGetInstallation(p)
  \/ \E p \in Procs : ReposResponse(p)
  \/ \E p \in Procs : GetResponse(p)
  \/ \E p \in Procs : PutResponse(p)
  \/ \E p \in Procs : HistoryGet(p)
  \/ \E p \in Procs : HistorySet(p)
  \/ Tick

SpecSync == InitSync /\ [][NextSync]_vars

\* an editor page on which captures follow each other while earlier flows
\* are in flight; the project of an earlier capture may still be held
InitAutoSync ==
  /\ PageLoaded(BlankPage)
  /\ ContentScriptLoaded(NumFlows, MaxEvents)
  /\ csCapturedProject \in {Null, Some(EarlierCapture)}
  /\ Handlers(NumFlows)
  /\ settings = Some(ChosenSettings(TRUE))
  /\ remote = Null
  /\ \E rev \in Revisions, cfg \in CredConfigs :
       CanAuthenticate(rev, cfg) /\ StorageRestarted(rev, cfg)

\* the stored token stays fresh: no time passes and nothing is refreshed
NextAutoSync ==
  \/ \E c \in Flows : ProjectCaptured(c)
  \/ \E c \in Flows : ListenerSettings(c)
  \/ \E c \in Flows : TimerFires(c)
  \/ \E c \in Flows : SyncClick(c)
  \/ \E c \in Flows : SyncNow(c)
  \/ \E c \in Flows : SyncConnection(c)
  \/ \E c \in Flows : SyncSettings(c)
  \/ \E c \in Flows : SyncPushed(c)
  \/ ButtonTimer
  \/ \E p \in Flows : SettingsGet(p)
  \/ \E p \in Flows : GvGetTokens(p)
  \/ \E p \in Flows : UserResponse(p)
  \/ \E p \in Flows : ReposGetInstallation(p)
  \/ \E p \in Flows : ReposResponse(p)
  \/ \E p \in Flows : GetResponse(p)
  \/ \E p \in Flows : PutResponse(p)
  \/ \E p \in Flows : HistoryGet(p)
  \/ \E p \in Flows : HistorySet(p)

SpecAutoSync == InitAutoSync /\ [][NextAutoSync]_vars

\* a popup, opened more than once, over a service worker that holds an
\* earlier session
InitDisconnect ==
  /\ PageLoaded(BlankPage)
  /\ ContentScriptLoaded(NumFlows, MaxEvents)
  /\ csCapturedProject = Null
  /\ Handlers(NumFlows)
  /\ SettingsStored
  /\ remote = Null
  /\ \E rev \in Revisions, cfg \in CredConfigs :
       CanAuthenticate(rev, cfg) /\ StorageRestarted(rev, cfg)

NextDisconnect ==
  \/ \E p \in Flows : PopupInitialize(p)
  \/ \E p \in Flows : DisconnectClick(p)
  \/ \E p \in Flows : PopupShows(p)
  \/ \E p \in Flows : DisconnectClearAuth(p)
  \/ \E p \in Flows : DisconnectRemoveSettings(p)
  \/ \E p \in Flows : GvGetTokens(p)
  \/ \E p \in Flows : RfGetTokens(p)
  \/ \E p \in Flows : RfResponse(p)
  \/ \E p \in Flows : RfStore(p)
  \/ \E p \in Flows : GvClearAuth(p)
  \/ \E p \in Flows : UserResponse(p)
  \/ Tick

SpecDisconnect == InitDisconnect /\ [][NextDisconnect]_vars

\* the content script and the service worker keep running: a step that can
\* be taken (a response that is due, a timer that is armed) is taken
FairSync == SpecSync /\ WF_vars(NextSync)

\* a popup whose Connect is clicked again while the authorization of the
\* click before is still open
InitConnect ==
  /\ PageLoaded(BlankPage)
  /\ ContentScriptLoaded(NumFlows, MaxEvents)
  /\ csCapturedProject = Null
  /\ Handlers(NumFlows)
  /\ SettingsInstalled
  /\ remote = Null
  /\ \E rev \in Revisions, cfg \in CredConfigs :
       CanAuthenticate(rev, cfg) /\ StorageRestarted(rev, cfg)

NextConnect ==
  \/ \E p \in Flows : ConnectClick(p)
  \/ \E p \in Flows : ConnectTimesOut(p)
  \/ \E p \in Flows : PopupReceives(p)
  \/ \E p \in Flows : AuthSetState(p)
  \/ \E p \in Flows : AuthLaunchRejects(p)
  \/ \E p \in Flows : AuthLaunchResolves(p)
  \/ \E p \in Flows : AuthVerify(p)
  \/ \E p \in Flows : AuthExchangeResponse(p)
  \/ \E p \in Flows : AuthStoreTokens(p)
  \/ \E p \in Flows : AuthInstallationsResponse(p)
  \/ \E p \in Flows : AuthNoInstallation(p)
  \/ \E p \in Flows : AuthSetInstallation(p)
  \/ \E p \in Flows : AuthCatch(p)
  \/ \E p \in Flows : AuthRemoveState(p)
  \/ \E p \in Flows : GvGetTokens(p)
  \/ \E p \in Flows : UserResponse(p)

SpecConnect == InitConnect /\ [][NextConnect]_vars
(***************************************************************************)
(* The way of the project bytes from the content script to the PUT         *)
(* request, taken by itself: arrayBufferToBase64 in the content script,    *)
(* atob and charCodeAt in the PUSH_PROJECT handler, arrayBufferToBase64 in *)
(* pushFile.                                                               *)
(***************************************************************************)
\* the byte values, and the two at the ends of the range
ByteValues == 0..255
EdgeBytes == {0, 255}

\* the captured contents: every length up to MaxLen, so that every padding
\* of the last group occurs, and every byte value at every position, next
\* to bytes from the ends of the range
CapturedContents ==
  {<< >>} \cup
  UNION { { [b EXCEPT ![i] = x] :
              b \in [1..n -> EdgeBytes], i \in 1..n, x \in ByteValues }
          : n \in 1..MaxLen }

\* a content script that holds a captured project, connected, with a
\* repository and a branch chosen
InitCodec ==
  /\ PageLoaded(BlankPage)
  /\ ContentScriptLoaded(1, 0)
  /\ \E content \in CapturedContents :
       csCapturedProject = Some([name |-> "Robot", content |-> content])
  /\ Handlers(1)
  /\ settings = Some(ChosenSettings(FALSE))
  /\ remote = Null
  /\ \E rev \in Revisions, cfg \in CredConfigs :
       CanAuthenticate(rev, cfg) /\ StorageRestarted(rev, cfg)

\* handleSync, step 5: pushData with the base64 text of capturedProject
EncodeCaptured ==
  /\ sync[1].pushData = Null
  /\ SetSync(1, [sync[1] EXCEPT
                   !.pushData =
                      Some(PushData(Val(csCapturedProject).name,
                                    Val(csCapturedProject).content,
                                    Val(Val(settings).selectedRepo),
                                    Val(Val(settings).selectedBranch),
                                    Some(<<"Fix arm">>)))])
  /\ UNCHANGED <<captureVars, authVars, pushVars>>
  /\ UNCHANGED <<settings, csCapturedProject, events, quota, button>>

\* the PUSH_PROJECT handler turns the text of the message back into bytes
DecodeMessage ==
  /\ sync[1].pushData # Null
  /\ proc[1].zipContent = Null
  /\ Set(1, PushRequest(Val(sync[1].pushData)))
  /\ UNCHANGED <<revision, creds, tokens, tokenBy, authState, installation,
                 now, started>>
  /\ UNCHANGED <<captureVars, pushVars, syncVars>>

\* pushFile encodes the bytes for the body of the PUT request
EncodeUpload ==
  /\ proc[1].zipContent # Null
  /\ proc[1].putBody = Null
  /\ Set(1, [proc[1] EXCEPT !.putBody = Some(PutBody(proc[1], remote, now))])
  /\ UNCHANGED <<revision, creds, tokens, tokenBy, authState, installation,
                 now, started>>
  /\ UNCHANGED <<captureVars, pushVars, syncVars>>

NextCodec ==
  \/ EncodeCaptured
  \/ DecodeMessage
  \/ EncodeUpload

SpecCodec == InitCodec /\ [][NextCodec]_vars
InitCapture ==
  /\ \E pg \in Pages : PageLoaded(pg)
  /\ WorkerInstalled("app", NoCreds)
  /\ NoContentScript
  /\ SettingsInstalled
  /\ remote = Null

NextCapture ==
  \/ InvokeCapture
  \/ CaptureProject
  \/ DownloadButtonClick
  \/ ClearCaptured
  \/ PageChange

SpecCapture == InitCapture /\ [][NextCapture]_vars


(***************************************************************************)
(* The page calling the wrapped platform functions.                        *)
(***************************************************************************)
InitWrap ==
  /\ \E pg \in Pages : PageLoaded(pg)
  /\ WorkerInstalled("app", NoCreds)
  /\ NoContentScript
  /\ SettingsInstalled
  /\ remote = Null

NextWrap ==
  \/ WriteCalled
  \/ WriteConvert
  \/ WriteForward
  \/ CloseCalled
  \/ CloseForward
  \/ PickerCalled
  \/ GetFileHandleCalled
  \/ PickerSettles
  \/ CreateObjectURLCalled
  \/ CreateObjectURLForward
  \/ CreateObjectURLInspect
  \/ AnchorClickCalled
  \/ AnchorClickForward
  \/ DeferredSettles
  \/ CaptureProject

SpecWrap == InitWrap /\ [][NextWrap]_vars
(***************************************************************************)
(* Properties of the capture interceptor.                                  *)
(***************************************************************************)
\* the two-byte archive signature 'P' 'K', stated on the buffer itself
HasMagic(buf) == Len(buf) >= 2 /\ SubSeq(buf, 1, 2) = <<80, 75>>

\* the name the stated priority order gives a capture at the time it is
\* made: the explicit file name, else the DOM scan, else the URL segment,
\* else the dated fallback
ResolvedNow(filename, d, path) ==
  IF Truthy(filename)
  THEN StripExtension(Val(filename))
  ELSE ScanName(d, path)

\* C1: a captureProject call on a buffer whose first two bytes are not
\* 0x50 0x4B (buffers shorter than two bytes included) returns false,
\* dispatches no project-captured event and leaves capturedProject and
\* projectName as they were, for every source tag and file name.
C1_NoMagicIsNoOp ==
  [][(pending # Null /\ ~HasMagic(Val(pending).buf))
       => /\ ret' = Some(FALSE)
          /\ lastEvent' = Null
          /\ UNCHANGED <<capturedProject, projectName>>
    ]_vars

\* a rejected call made while an earlier capture is being held
C1_Witness ==
  /\ ret = Some(FALSE)
  /\ capturedProject # Null
  /\ projectName # Null

\* C2: every successful capture replaces the retained artifact as a whole:
\* after the call the retained bytes are the call's buffer and the retained
\* name is the name resolved for this call, never the name of an earlier
\* capture.
C2_LatestCaptureWins ==
  [][(pending # Null /\ HasMagic(Val(pending).buf))
       => /\ capturedProject' = Some(Val(pending).buf)
          /\ projectName' =
               Some(ResolvedNow(Val(pending).filename, dom, pathname))
    ]_vars

\* the file name without a trailing .llsp3, .llsp or .zip, whatever the
\* case of its letters
WithoutExtension(filename) ==
  LET n == Len(filename)
  IN  IF n > 0 /\ \E ext \in {".llsp3", ".llsp", ".zip"} :
                    Lower(filename[n]) = ext
      THEN [i \in 1..(n - 1) |-> filename[i]]
      ELSE filename

\* C17: a captureProject call on an archive buffer with a supplied file
\* name returns true and dispatches one project-captured event whose
\* projectName is the file name without its trailing .llsp3, .llsp or .zip,
\* whose size is the buffer's byte length, and which carries the call's
\* source tag and the same buffer.
C17_EventDescribesCapture ==
  [][(pending # Null /\ HasMagic(Val(pending).buf)
        /\ Truthy(Val(pending).filename))
       => /\ ret' = Some(TRUE)
          /\ lastEvent' =
               Some([projectName |->
                       Some(WithoutExtension(Val(Val(pending).filename))),
                     size |-> Len(Val(pending).buf),
                     source |-> Val(pending).source,
                     content |-> Val(pending).buf])
    ]_vars

\* the event of an anchor download of Robot.llsp3 (or Robot.ZIP) on a page
\* that shows no name
C17_Witness ==
  /\ ret = Some(TRUE)
  /\ dom = << >>
  /\ lastEvent # Null
  /\ Val(lastEvent).projectName = Some(<<"Robot">>)
  /\ Val(lastEvent).source = "Anchor-Download"
  /\ Val(lastEvent).size = Len(Val(lastEvent).content)
  /\ Val(lastEvent).size > 2
  /\ capturedProject = Some(Val(lastEvent).content)

\* the first text of the page, in scan order, that passes the test of the
\* heuristic, trimmed; Null when no text passes
FirstDomMatch(d) ==
  IF \E i \in 1..Len(d) : Acceptable(d[i])
  THEN LET i == CHOOSE i \in 1..Len(d) :
                  /\ Acceptable(d[i])
                  /\ \A j \in 1..(i - 1) : ~Acceptable(d[j])
       IN  Some(Trim(d[i]))
  ELSE Null

\* C18: for every successful capture the name is resolved in the stated
\* order at the time of that capture: the explicit file name if one is
\* supplied, otherwise the first acceptable DOM match, otherwise the last
\* URL path segment, otherwise the dated fallback.  A name left over from
\* an earlier capture or download-button click never takes precedence over
\* a DOM match.
C18_NameResolvedInPriorityOrder ==
  [][(pending # Null /\ HasMagic(Val(pending).buf))
       => LET filename == Val(pending).filename
          IN  /\ lastEvent' # Null
              /\ Truthy(filename)
                   => Val(lastEvent').projectName
                        = Some(WithoutExtension(Val(filename)))
              /\ (~Truthy(filename) /\ FirstDomMatch(dom) # Null)
                   => Val(lastEvent').projectName = FirstDomMatch(dom)
              /\ (~Truthy(filename) /\ FirstDomMatch(dom) = Null)
                   => Val(lastEvent').projectName
                        \in { Some(<<seg>>) : seg \in
                                {pathname[i] : i \in 1..Len(pathname)} }
                             \cup { Some(<<"SPIKE_Project_", Today>>) }
    ]_vars
(***************************************************************************)
(* Properties of the token manager.                                        *)
(***************************************************************************)
REAUTH == <<"Token expired and refresh failed. Please re-authenticate.">>
CSRF == <<"State mismatch - possible CSRF attack">>

\* the remaining lifetime getValidAccessToken computed for the record it read
Remaining(r) == Val(r.read).rec.expiresAt - Val(r.read).at

\* C3: when getValidAccessToken returns, it made at most one refresh call; it
\* returns the stored token unchanged only if the remaining lifetime it saw
\* was above the threshold, and otherwise it made exactly one refresh call and
\* returns the refreshed token, or it is about to fail with exactly one
\* refresh call made.
C3_RefreshBeforeReturn ==
  \A p \in Procs :
    /\ proc[p].refreshes <= 1
    /\ proc[p].pc = "user_fetch" =>
         /\ proc[p].read # Null
         /\ Remaining(proc[p]) > TOKEN_REFRESH_THRESHOLD =>
              /\ proc[p].refreshes = 0
              /\ proc[p].bearer = Some(Val(proc[p].read).rec.accessToken)
         /\ Remaining(proc[p]) <= TOKEN_REFRESH_THRESHOLD =>
              /\ proc[p].refreshes = 1
              /\ proc[p].newTokens # Null
              /\ proc[p].bearer = Some(Val(proc[p].newTokens).accessToken)
    /\ proc[p].pc = "gv_clearAuth" =>
         /\ proc[p].refreshes = 1
         /\ Remaining(proc[p]) <= TOKEN_REFRESH_THRESHOLD

\* a token exactly at the threshold was refreshed before the return
C3_Witness ==
  \E p \in Procs :
    /\ proc[p].pc = "user_fetch"
    /\ Remaining(proc[p]) = TOKEN_REFRESH_THRESHOLD
    /\ proc[p].refreshes = 1
    /\ proc[p].bearer = Some(Some("ghu_A"))

\* C4: once a refresh has failed inside getValidAccessToken (no refresh token,
\* HTTP error, error member), the next step of that call removes the token
\* record, the nonce and, in the GitHub App revision, the installation, and
\* hands the caller the re-authenticate error; the call made one refresh.
C4_RefreshFailureClearsAuth ==
  [][\A p \in Procs :
       (proc[p].pc = "gv_clearAuth" /\ proc'[p] # proc[p])
         => /\ tokens' = Null
            /\ authState' = Null
            /\ (revision = "app" => installation' = Null)
            /\ proc[p].refreshes = 1
            /\ proc'[p].pc = "done"
            /\ Val(proc'[p].resp).error = Some(REAUTH)]_vars

\* the GitHub App revision answered with the re-authenticate error and holds
\* no session any more
C4_Witness ==
  \E p \in Procs :
    /\ proc[p].pc = "done"
    /\ Val(proc[p].resp).error = Some(REAUTH)
    /\ revision = "app"
    /\ tokens = Null /\ installation = Null /\ authState = Null

\* the redirect of this flow carried a state different from the stored nonce
Mismatch(r) ==
  /\ r.redir # Null
  /\ StateDiffers(Val(r.redir).state, Val(r.redir).stored)

\* the token record in storage was written by this request
WroteTokens(r) == tokens # Null /\ tokenBy # Null /\ Val(tokenBy).id = r.id

\* C5 as stated: a returned state that differs from the stored nonce ends the
\* flow with the state-mismatch error, whatever the other parameters are,
\* with no code exchange and no token record written.
C5_MismatchIsAlwaysCsrfError ==
  \A p \in Procs :
    (proc[p].pc = "done" /\ Mismatch(proc[p]))
      => /\ Val(proc[p].resp).error = Some(CSRF)
         /\ proc[p].exchanges = 0
         /\ ~WroteTokens(proc[p])

\* C5 amended: a returned state that differs from the stored nonce always
\* ends the flow with an error, no code exchange and no token record written;
\* the error is the state-mismatch error exactly when the redirect has no
\* error parameter and has a code, since those two are tested first.
C5_MismatchAborts ==
  \A p \in Procs :
    (proc[p].pc = "done" /\ Mismatch(proc[p]))
      => /\ Val(proc[p].resp).success = Some(FALSE)
         /\ proc[p].exchanges = 0
         /\ ~WroteTokens(proc[p])
         /\ Val(proc[p].resp).error =
              Some(IF Val(proc[p].redir).error # Null
                   THEN <<"GitHub authorization failed: ",
                          Val(Val(proc[p].redir).error)>>
                   ELSE IF Val(proc[p].redir).code = Null
                        THEN <<"No authorization code received">>
                        ELSE CSRF)

\* a forged state came back with a code and no error, and was refused
C5_Witness ==
  \E p \in Procs :
    /\ proc[p].pc = "done"
    /\ proc[p].redir # Null
    /\ Val(proc[p].redir).state = Some(ForgedState)
    /\ Val(proc[p].redir).error = Null
    /\ Val(proc[p].redir).code # Null
    /\ Val(proc[p].resp).error = Some(CSRF)

\* authenticate() has stored its nonce, or is about to, and has not returned
InAuthenticate(r) ==
  r.pc \in {"auth_setState", "auth_launch", "auth_verify", "auth_exchange",
            "auth_store", "auth_installations", "auth_noInstallation",
            "auth_setInstallation", "auth_catch", "auth_removeState"}

\* C6: whenever no authenticate flow is in flight, no nonce is stored.
C6_NonceNeverOutlivesFlow ==
  (\A p \in Procs : ~InAuthenticate(proc[p])) => authState = Null

\* an authenticate call that stored its nonce settled with an exchange failure
C6_Witness ==
  \E p \in Procs :
    /\ proc[p].pc = "done"
    /\ proc[p].op = "AUTHENTICATE"
    /\ proc[p].exchanges = 1
    /\ Val(proc[p].resp).success = Some(FALSE)
    /\ authState = Null

\* C7: the stored token record is absent or has accessToken, expiresAt and
\* scope populated.
C7_TokenRecordComplete ==
  tokens # Null =>
    /\ Val(tokens).accessToken # Null
    /\ Val(tokens).expiresAt \in Nat
    /\ Val(tokens).scope # Null

\* C8: an AUTHENTICATE request answered with success:false has left no token
\* record of its own in storage.
C8_FailedAuthenticateStoresNothing ==
  \A p \in Procs :
    (/\ proc[p].pc = "done"
     /\ proc[p].op = "AUTHENTICATE"
     /\ Val(proc[p].resp).success = Some(FALSE))
      => ~WroteTokens(proc[p])

(***************************************************************************)
(* Properties of the push.                                                 *)
(***************************************************************************)
\* C9: the PUT of pushSpikeProject carries the sha of the file that was at the
\* target when it was looked up, and carries a sha exactly if there was one;
\* a successful call reports "update" exactly in that case and "add"
\* otherwise, and has issued exactly one PUT, after the lookup.
C9_ShaExactlyWhenFileExists ==
  \A p \in Procs :
    /\ proc[p].puts <= 1
    /\ proc[p].pc = "put_fetch" =>
         /\ proc[p].puts = 1
         /\ proc[p].lookedUp # Null
         /\ proc[p].existing = Val(proc[p].lookedUp)
    /\ (proc[p].pc = "done" /\ proc[p].op = "PUSH_PROJECT"
          /\ Val(proc[p].resp).success = Some(TRUE)) =>
         /\ proc[p].puts = 1
         /\ Val(proc[p].resp).action =
              Some(IF Val(proc[p].lookedUp) # Null THEN "update" ELSE "add")

\* msg contains the text sub
IncludesText(msg, sub) ==
  \E i \in 1..Len(msg) :
    i + Len(sub) - 1 <= Len(msg) /\ SubSeq(msg, i, i + Len(sub) - 1) = sub

\* C10: a request that received a response with no quota left is answered
\* with an error whose message contains the reset time of that response.
C10_RateLimitErrorNamesResetTime ==
  \A p \in Procs :
    (proc[p].pc = "done" /\ proc[p].limited # Null)
      => /\ Val(proc[p].resp).error # Null
         /\ IncludesText(Val(Val(proc[p].resp).error),
                         LocaleString(ResetTime(Val(proc[p].limited)) * 1000))


\* C21: every authenticated request to the hosting API carries the token
\* that getValidAccessToken returned to the same operation; no request
\* carries a token taken from elsewhere, such as the token the code
\* exchange has just returned.
C21_BearerComesFromAccessor ==
  \A p \in DOMAIN proc :
    proc[p].authorization # Null
      => proc[p].bearer = proc[p].authorization

\* the redirect of flow p came back with the nonce flow p had generated
ReturnedOwnNonce(p) ==
  /\ proc[p].redir # Null
  /\ Val(proc[p].redir).state = proc[p].nonce

\* C29: when two authenticate flows overlap, a flow whose redirect returns
\* exactly the nonce that flow generated passes the state verification; it
\* is never rejected with the state-mismatch error because another flow has
\* overwritten or removed the one stored nonce.
C29_OwnNoncePassesVerification ==
  \A p \in DOMAIN proc :
    (proc[p].pc = "auth_catch"
       /\ proc[p].err = Some(<<"State mismatch - possible CSRF attack">>))
      => ~ReturnedOwnNonce(p)
(***************************************************************************)
(* Properties of the message protocol.                                     *)
(***************************************************************************)
Booleans == {Some(TRUE), Some(FALSE)}

\* the object has a boolean success member, and an error when it is false
HasSuccessShape(m) ==
  /\ m.success \in Booleans
  /\ m.success = Some(FALSE) => m.error # Null

\* the object has a boolean connected member and no success member
HasConnectedShape(m) ==
  /\ m.success = Null
  /\ m.connected \in Booleans
  /\ m.connected = Some(TRUE) => m.error = Null

\* sendResponse is called with the handler's result when the handler is
\* finished, and at no other point
AnsweredOnce ==
  \A p \in DOMAIN proc : (proc[p].resp # Null) <=> (proc[p].pc = "done")

NewestFirst(history) ==
  \A i, j \in 1..Len(history) :
    i < j => history[i].timestamp >= history[j].timestamp

\* the step ends a push that succeeded
PushSucceeds(p) ==
  /\ proc[p].op = "PUSH_PROJECT"
  /\ proc[p].pc # "done"
  /\ proc'[p].pc = "done"
  /\ Val(proc'[p].resp).success = Some(TRUE)

\* the step ends a push that failed
PushFails(p) ==
  /\ proc[p].op = "PUSH_PROJECT"
  /\ proc[p].pc # "done"
  /\ proc'[p].pc = "done"
  /\ Val(proc'[p].resp).success = Some(FALSE)

\* C12: the stored sync history holds at most 50 records, newest first; a
\* push that succeeds leaves the stored history as it was with one record
\* added in front (and cut to 50), and a push that fails leaves it as it was.
C12_HistoryIsCappedLog ==
  [][ /\ Len(syncHistory') <= HistoryCap
      /\ NewestFirst(syncHistory')
      /\ \A p \in DOMAIN proc :
           /\ PushSucceeds(p) =>
                \E rec \in {Val(proc[p].syncRecord)} :
                  syncHistory' = Unshift(syncHistory, rec)
           /\ PushFails(p) => syncHistory' = syncHistory ]_vars

\* C13: in a manual sync the text of the commit-message field, which
\* handleSync received and sent in the PUSH_PROJECT request, is contained in
\* the message member of the PUT request that pushSpikeProject issues.
C13_CommitCarriesCustomMessage ==
  \A c \in DOMAIN sync :
    ( /\ sync[c].pc = "sync_push"
      /\ ~sync[c].isAutoSync
      /\ proc[c].putBody # Null )
      => /\ Val(sync[c].pushData).commitMessage = sync[c].commitMessage
         /\ proc[c].sent = sync[c].commitMessage
         /\ IncludesText(Val(proc[c].putBody).message,
                         Val(sync[c].commitMessage))

\* C14: a handleSync that starts while the stored token is due for refresh
\* and has a refresh token is not turned away by CHECK_CONNECTION as not
\* connected without a refresh having been tried: it goes on to refresh and
\* push.
C14_DueTokenIsRefreshedNotRefused ==
  \A c \in DOMAIN sync :
    ( /\ sync[c].pc = "sync_connection"
      /\ sync[c].refreshable
      /\ Received(c) )
      => Response(c) # NotConnected

\* a handler waits for the answer to a token refresh, a code exchange or
\* an upload
AwaitsNetworkCall(r) == r.pc \in {"rf_fetch", "auth_exchange", "put_fetch"}

\* C15: nothing is retried: one handleSync call sends at most one
\* PUSH_PROJECT message, one request issues at most one PUT and at most one
\* code exchange, and a request whose token refresh, code exchange or upload
\* has failed issues no further one; later requests come from later user
\* actions or capture events only, each of which causes four messages at
\* most (GET_SETTINGS, CHECK_CONNECTION, GET_SETTINGS, PUSH_PROJECT).
C15_NoAutoRetry ==
  /\ \A c \in DOMAIN sync : sync[c].pushes <= 1
  /\ \A p \in DOMAIN proc :
       /\ proc[p].puts <= 1
       /\ proc[p].exchanges <= 1
       /\ proc[p].failed => ~AwaitsNetworkCall(proc[p])
  /\ started <= 4 * events

\* a handleSync call has ended with the error of its one failed upload
C15_Witness ==
  \E c \in DOMAIN sync :
    /\ sync[c].pc = "idle"
    /\ sync[c].outcome = "error"
    /\ sync[c].pushes = 1
    /\ proc[c].pc = "idle"


\* the flow of a capture event that found auto-sync enabled
AutoFlow(s) == s.capture # Null /\ s.isAutoSync

\* the push request of the flow carries the content and the name of the
\* capture event the flow began with
CarriesItsCapture(s) ==
  /\ Val(s.pushData).projectName = Val(s.capture).name
  /\ Atob(Val(s.pushData).zipContent) = Val(s.capture).content

\* C19: with auto-sync enabled, the extension connected and a repository
\* and branch selected, every capture event leads without user action to
\* exactly one push request, which carries the content and the name of
\* that capture; with auto-sync disabled a capture event leads to no push.
C19_EachCaptureIsPushedOnce ==
  \A c \in DOMAIN sync :
    LET s == sync[c]
    IN  /\ s.pushes <= 1
        /\ (AutoFlow(s) /\ s.pushData # Null) => CarriesItsCapture(s)
        /\ (AutoFlow(s) /\ s.pc = "idle" /\ s.outcome # "connect first")
              => s.pushes = 1
        /\ (s.capture # Null /\ ~s.isAutoSync) => s.pushes = 0

\* the step ends the handleSync call of flow c
SyncEnds(c) == sync[c].pc # "idle" /\ sync'[c].pc = "idle"

\* the ways a sync attempt is rejected or fails
Rejections ==
  {"connect first", "select a repository", "no project", "message required",
   "error"}

\* what C22 says of every sync attempt that is rejected or fails, and of a
\* sync that finds nothing held
HeldAcrossRejections(c) ==
  /\ (SyncEnds(c) /\ sync'[c].outcome \in Rejections)
       => csCapturedProject' = csCapturedProject
  /\ (sync[c].pc = "sync_settings" /\ sync'[c] # sync[c]
        /\ csCapturedProject = Null)
       => /\ sync'[c].pc = "idle"
          /\ sync'[c].outcome \in {"error", "select a repository", "no project"}
          /\ sync'[c].pushes = 0

\* C22 as stated: the artifact held by the content script stays in place
\* across every sync attempt that is rejected or fails, and once an upload
\* of it succeeds, by manual or by automatic sync, it is no longer held, so
\* that a following sync without a new capture reports no project.
C22_HeldUntilAnyUpload ==
  [][\A c \in DOMAIN sync :
       /\ HeldAcrossRejections(c)
       /\ (SyncEnds(c) /\ sync'[c].outcome = "synced")
            => csCapturedProject' = Null ]_vars

\* C22: the artifact held by the content script stays in place across every
\* sync attempt that is rejected or fails and across a successful automatic
\* sync; once a manual sync has uploaded it, it is no longer held, and a
\* sync that finds nothing held pushes nothing and reports it.
C22_HeldUntilManualUpload ==
  [][\A c \in DOMAIN sync :
       /\ HeldAcrossRejections(c)
       /\ (SyncEnds(c) /\ sync'[c].outcome = "synced" /\ ~sync[c].isAutoSync)
            => csCapturedProject' = Null
       /\ (SyncEnds(c) /\ sync'[c].outcome = "synced" /\ sync[c].isAutoSync)
            => csCapturedProject' = csCapturedProject ]_vars

\* a manual sync has uploaded the held artifact, and nothing is held now
C22_Witness ==
  \E c \in DOMAIN sync :
    /\ sync[c].pc = "idle"
    /\ sync[c].outcome = "synced"
    /\ ~sync[c].isAutoSync
    /\ sync[c].pushes = 1
    /\ csCapturedProject = Null

\* C24: the interactive authorization flow is not cut short by a
\* programmatic timeout: the popup's connect action reports a failed
\* connection only on the failure response of its AUTHENTICATE request, never
\* while the user is still deciding at the authorization page, and never for
\* a flow that goes on to complete and store a token record.
C24_ConnectWaitsForTheUser ==
  \A p \in DOMAIN sync :
    (sync[p].outcome = "failed to connect" /\ proc[p].op = "AUTHENTICATE")
      => /\ proc[p].pc = "done"
         /\ Response(p).success = Some(FALSE)

\* the project the content script holds is the one flow c has pushed
HoldsWhatWasPushed(c) ==
  /\ csCapturedProject # Null
  /\ Val(sync[c].pushData).projectName = Val(csCapturedProject).name
  /\ Val(sync[c].pushData).zipContent
       = ArrayBufferToBase64(Val(csCapturedProject).content)

\* C26: a capture that arrives while handleSync waits for the response to a
\* manual push is still held after that push has completed (the clear
\* removes only the artifact that was pushed), and the success notification
\* names the project that was pushed.
C26_ManualSyncSparesNewerCapture ==
  [][\A c \in DOMAIN sync :
       (SyncEnds(c) /\ ~sync[c].isAutoSync /\ sync'[c].outcome = "synced")
         => /\ sync'[c].notified = Some(Val(sync[c].pushData).projectName)
            /\ ~HoldsWhatWasPushed(c) => csCapturedProject' = csCapturedProject
    ]_vars

\* C27: the injected sync button never stays stuck in 'syncing': after every
\* accepted click, however handleSync ends (a push that succeeded or
\* failed, or an early return for no connection, no repository or branch, no
\* held project or a missing message), the button eventually leaves
\* 'syncing' and is enabled again.
C27_ButtonLeavesSyncing ==
  (button.state = "syncing") ~> (button.state # "syncing")

\* C28: SYNC_NOW is answered success: true only when the sync has pushed
\* the project; a sync that was refused or that failed is answered
\* success: false with an error.
C28_SyncNowAnswerTellsTheOutcome ==
  \A c \in DOMAIN sync :
    sync[c].answer # Null =>
      LET answer == Val(sync[c].answer)
      IN  /\ answer.success <=> sync[c].outcome = "synced"
          /\ ~answer.success => answer.error # Null

\* C30: the bytes that are uploaded are the bytes that were captured, for
\* every byte value 0-255 and every length: the text the content script
\* sends decodes in the PUSH_PROJECT handler to the captured bytes, and the
\* text pushFile puts into the PUT request is the text that was sent and
\* decodes to the captured bytes.
C30_UploadedBytesAreCapturedBytes ==
  \A p \in DOMAIN proc :
    LET captured == Val(csCapturedProject).content
    IN  /\ proc[p].zipContent # Null
             => Val(proc[p].zipContent) = captured
        /\ proc[p].putBody # Null
             => /\ Val(proc[p].putBody).content
                     = Val(sync[p].pushData).zipContent
                /\ Atob(Val(proc[p].putBody).content) = captured

\* a PUT body has been built for a capture of three bytes with the high
\* bit set in one of them, whose text has no padding
C30_Witness ==
  \E p \in DOMAIN proc :
    /\ proc[p].putBody # Null
    /\ Val(csCapturedProject).content = <<255, 200, 0>>
    /\ Val(proc[p].putBody).content = <<63, 60, 32, 0>>
(***************************************************************************)
(* Properties of the wrappers.                                             *)
(***************************************************************************)
\* the wrapper handed back the very object (or error) the original produced:
\* handles are compared by identity, arrays of handles element by element
SameResult(c) ==
  /\ c.returned # Null /\ c.result # Null
  /\ LET out == Val(c.returned)
         orig == Val(c.result)
     IN  /\ out.status = orig.status
         /\ IF orig.status = "rejected"
            THEN out.value = orig.value
            ELSE CASE c.api \in {"showSaveFilePicker", "getFileHandle"} ->
                        /\ out.value.id = orig.value.id
                        /\ out.value.name = orig.value.name
                   [] c.api = "showOpenFilePicker" ->
                        /\ Len(out.value) = Len(orig.value)
                        /\ \A i \in 1..Len(orig.value) :
                             /\ out.value[i].id = orig.value[i].id
                             /\ out.value[i].name = orig.value[i].name
                   [] OTHER -> out.value = orig.value

\* C16: every intercepted platform call (writable write and close,
\* showSaveFilePicker, showOpenFilePicker, getFileHandle,
\* URL.createObjectURL, HTMLAnchorElement.click) invokes the original
\* exactly once with the caller's arguments and returns the original's
\* result, whether or not a capture happens and even when the capture code
\* raises an error.
C16_WrappersAreTransparent ==
  call # Null =>
    /\ Val(call).invoked <= 1
    /\ Val(call).pc = "returned" =>
         /\ Val(call).invoked = 1
         /\ Val(call).passed = Some(Val(call).args)
         /\ SameResult(Val(call))

\* a write of a project file whose Blob could not be read: the capture code
\* raised an error, the write went through
C16_Witness ==
  /\ call # Null
  /\ Val(call).api = "write"
  /\ Val(call).pc = "returned"
  /\ Val(call).threw
  /\ IsProjectName(Val(call).name)
  /\ Val(call).invoked = 1
  /\ Val(call).returned = Some(Fulfilled("undefined"))

\* the contents of a file: its chunks one after the other
RECURSIVE FileContents(_)
FileContents(chunks) ==
  IF chunks = << >> THEN << >>
  ELSE Head(chunks) \o FileContents(Tail(chunks))

\* a save of a project file that has been closed after several writes, the
\* first of which began with the archive signature
SavedInChunks ==
  /\ call # Null
  /\ Val(call).api = "close"
  /\ Val(call).pc = "returned"
  /\ Val(call).returned = Some(Fulfilled("undefined"))
  /\ IsProjectName(Val(call).name)
  /\ Len(Val(call).written) >= 2
  /\ IsZip(Val(call).written[1])

\* C23: each chunk written to a matching file name is buffered: when a save
\* of a project file is made of several writes and then closed, the artifact
\* retained for that save holds every written chunk in write order, not only
\* the chunk that begins with the archive signature.
C23_ArtifactHoldsEveryChunk ==
  (SavedInChunks /\ capturedProject # Null) =>
    capturedProject = Some(FileContents(Val(call).written))
(***************************************************************************)
(* Properties of DISCONNECT.                                               *)
(***************************************************************************)
\* handler p has answered a DISCONNECT request with success: true and the
\* response has not been collected yet
DisconnectAnswered(r) ==
  /\ r.op = "DISCONNECT"
  /\ r.pc = "done"
  /\ Val(r.resp).success = Some(TRUE)

\* C20: once a DISCONNECT request is answered with success: true the token
\* record, the nonce, the installation record and the user settings are
\* absent from storage; the handler leaves the client id, the client
\* secret and the sync history as they were; and a CHECK_CONNECTION request
\* that arrives then is answered with connected: false.
C20_DisconnectForgetsSession ==
  [][\A p \in DOMAIN proc :
       /\ DisconnectAnswered(proc'[p])
            => /\ tokens' = Null
               /\ authState' = Null
               /\ installation' = Null
               /\ settings' = Null
       /\ (proc[p].op = "DISCONNECT" /\ proc'[p] # proc[p])
            => /\ creds' = creds
               /\ syncHistory' = syncHistory
       /\ ( /\ proc[p].pc = "idle"
            /\ proc'[p].op = "CHECK_CONNECTION"
            /\ \E q \in DOMAIN proc : DisconnectAnswered(proc[q]) )
            => proc'[p].resp = Some(NotConnected)
    ]_vars

\* the step is the clearAuth of request p's failed refresh
ClearsAfterFailedRefresh(p) ==
  /\ proc[p].pc = "gv_clearAuth"
  /\ proc'[p].pc # "gv_clearAuth"
  /\ tokens' = Null

\* the stored token record was written by the successful refresh of a
\* request other than p
RefreshedByAnother(p) ==
  /\ tokens # Null
  /\ tokenBy # Null
  /\ Val(tokenBy).via = "refresh"
  /\ Val(tokenBy).id # proc[p].id

\* C25: under any interleaving of two or more requests that call
\* getValidAccessToken while the stored token is at or below the refresh
\* threshold, a token record stored by the successful refresh of one request
\* is never removed by the failed refresh of another, so the session stays
\* authenticated when at least one refresh succeeded.
C25_FailedRefreshSparesNewerRecord ==
  [][\A p \in DOMAIN proc :
       ClearsAfterFailedRefresh(p) => ~RefreshedByAnother(p)]_vars
====
